---- MODULE Spec2Model ----
(***************************************************************************)
(* Verification model of FeiSync's client core:                            *)
(*   - write-target selection of the home view (pickAutoTenant,            *)
(*     ensureWritableParentToken and the handlers that use them);          *)
(*   - the cron utilities (normalize, parseCronExpression,                 *)
(*     computeNextOccurrence).                                             *)
(* Capacities are kept in thousandths of a GB (milli-GB), so that          *)
(* EPSILON = 0.001 GB is the integer 1; the inputs are multiples of        *)
(* 0.1 GB, far from the rounding error of the floating-point subtraction.  *)
(***************************************************************************)
EXTENDS Integers, Sequences, FiniteSets, TLC

VARIABLES
    tenants,            \* tenantStore.tenants: array of TenantInstance
    groups,             \* groupStore.groups: array of GroupRecord
    activeGroupId,      \* uiStore.activeGroupId ("" = no group selected)
    currentFolderToken, \* explorerStore.currentFolderToken
    loadPending,        \* an aggregated root load (performLoad(null)) is in flight
    tenantRootCache,    \* HomeView tenantRootCache: tenant ids with a cached root token
    op,                 \* the write handler in flight and the request it awaits
    alert,              \* message shown by window.alert, "none" once dismissed
    edits,              \* number of registry edits made so far
    schedule,           \* cron: the schedule text handed to the cron utilities
    cron,               \* cron: result of the last parseCronExpression
    normalizedSchedule, \* cron: result of the last normalizeCronExpression
    fromDate,           \* cron: fromDate of computeNextOccurrence, in seconds
    cursor,             \* cron: loop cursor of computeNextOccurrence, in minutes
    index,              \* cron: loop index of computeNextOccurrence
    scanPc,             \* cron: position in computeNextOccurrence
    nextRun,            \* cron: value returned by computeNextOccurrence
    fires,              \* cron: fire instants counted in the current window
    windowEnd,          \* cron: end of the counting window, in minutes
    remoteNames,        \* names: live entries of a parent folder (name -> how many)
    rawEntries,         \* names: explorerStore.entries of the folder on display
    nameOp,             \* names: the create/upload/copy/move batch in progress
    entries,            \* listing: explorerStore.entries of the aggregated root
    globalResults,      \* listing: HomeView globalResults (search matches)
    destinationItems,   \* listing: destinationDialog.items (move/copy picker)
    shown,              \* listing: which of the three views have been loaded
    pool,               \* search: the runWithLimit call in progress
    tasks,              \* sync tasks: taskStore.tasks (task id -> lastStatus)
    triggerRequests,    \* sync tasks: trigger_sync_task requests in flight, per task
    engineStatus,       \* sync tasks: last_status of each task in the backend
    transferTasks,      \* transfers: transferStore.tasks (transfer id -> record)
    engineTasks,        \* transfers: the engine's records
    clock,              \* transfers: the engine's updated_at clock
    events,             \* transfers: transfer://event payloads on their way to the listener
    fetchState,         \* transfers: the list_transfer_tasks call in flight and its answer
    initPc,             \* transfers: position in transferStore.initialize
    issued,             \* transfers: engine commands sent by the latest control
    registry,           \* tenant removal: the backend's tenant registry
    registryGroups,     \* tenant removal: the backend's groups
    removePc,           \* tenant removal: position in tenantStore.removeTenant
    reorderState,       \* tenant view: reorder_tenants calls in flight and the last one applied
    renameOp,           \* rename: the renameFolder call in progress, its requests and the two folders
    keyState,           \* security store: apiKey, localStorage, the backend's key, the generating promise and the callers
    formState,          \* task view and task store: tasks, the requests sent, the save in progress
    moveState,          \* moving entries: the folder shown, the destination dialog and the move_file requests
    loadState,          \* explorer store and the directory loads in flight
    triggerState,       \* task store during triggerTask: tasks shown, the backend's records, the calls in progress
    mountState,         \* transfer store initialization: the initialize calls in progress, the listeners, the events delivered
    busyState,          \* withBusy: actionBusy and the handlers that called it
    searchState,        \* home view search: searchRunId, appliedKeyword, globalResults, searching, runs in flight
    pickerState,        \* task form: groupId, remote selection, folderDialog, loads in flight, last payload
    fileRename          \* renaming files: parent content, listing on display, targets left, requests sent

routeVars == <<tenants, groups, activeGroupId, currentFolderToken, loadPending,
               tenantRootCache, op, alert, edits>>
parseVars == <<schedule, cron, normalizedSchedule>>
scanVars == <<fromDate, cursor, index, scanPc, nextRun, fires, windowEnd>>
nameVars == <<remoteNames, rawEntries, nameOp>>
listVars == <<entries, globalResults, destinationItems, shown>>
poolVars == <<pool>>
taskVars == <<tasks, triggerRequests, engineStatus>>
transferVars == <<transferTasks, engineTasks, clock, events, fetchState, initPc, issued>>
removeVars == <<registry, registryGroups, removePc>>
reorderVars == <<reorderState>>
renameVars == <<renameOp>>
keyVars == <<keyState>>
formVars == <<formState>>
moveVars == <<moveState>>
loadVars == <<loadState>>
triggerVars == <<triggerState>>
mountVars == <<mountState>>
busyVars == <<busyState>>
searchVars == <<searchState>>
pickerVars == <<pickerState>>
fileRenameVars == <<fileRename>>
extraVars == <<nameVars, listVars, poolVars, taskVars,
               transferVars, removeVars, reorderVars, renameVars,
               keyVars, formVars, moveVars, loadVars,
               triggerVars, mountVars, busyVars, searchVars,
               pickerVars,
               fileRenameVars>>
nonNameVars == <<routeVars, parseVars, scanVars, listVars, poolVars, taskVars, transferVars, removeVars,
    reorderVars,
    renameVars,
    keyVars,
    formVars,
    moveVars,
    loadVars,
    triggerVars,
    mountVars,
    busyVars,
    searchVars,
    pickerVars,
    fileRenameVars>>
nonListVars == <<currentFolderToken, loadPending, tenantRootCache, op, alert, edits,
                 parseVars, scanVars, nameVars, poolVars, taskVars, transferVars, removeVars,
    reorderVars,
    renameVars,
    keyVars,
    formVars,
    moveVars,
    loadVars,
    triggerVars,
    mountVars,
    busyVars,
    searchVars,
    pickerVars,
    fileRenameVars>>
nonPoolVars == <<routeVars, parseVars, scanVars, nameVars, listVars, taskVars, transferVars, removeVars,
    reorderVars,
    renameVars,
    keyVars,
    formVars,
    moveVars,
    loadVars,
    triggerVars,
    mountVars,
    busyVars,
    searchVars,
    pickerVars,
    fileRenameVars>>
nonTaskVars == <<routeVars, parseVars, scanVars, nameVars, listVars, poolVars, transferVars, removeVars,
    reorderVars,
    renameVars,
    keyVars,
    formVars,
    moveVars,
    loadVars,
    triggerVars,
    mountVars,
    busyVars,
    searchVars,
    pickerVars,
    fileRenameVars>>
nonTransferVars == <<routeVars, parseVars, scanVars, nameVars, listVars, poolVars, taskVars, removeVars,
    reorderVars,
    renameVars,
    keyVars,
    formVars,
    moveVars,
    loadVars,
    triggerVars,
    mountVars,
    busyVars,
    searchVars,
    pickerVars,
    fileRenameVars>>
nonRemoveVars == <<activeGroupId, currentFolderToken, loadPending, tenantRootCache, op, alert,
                   edits, parseVars, scanVars, nameVars, listVars, poolVars, taskVars,
                   transferVars,
    reorderVars,
    renameVars,
    keyVars,
    formVars,
    moveVars,
    loadVars,
    triggerVars,
    mountVars,
    busyVars,
    searchVars,
    pickerVars,
    fileRenameVars>>
nonReorderVars == <<routeVars, parseVars, scanVars, nameVars,
    listVars, poolVars, taskVars, transferVars,
    removeVars,
    renameVars,
    keyVars,
    formVars,
    moveVars,
    loadVars,
    triggerVars,
    mountVars,
    busyVars,
    searchVars,
    pickerVars,
    fileRenameVars>>
nonReorderTenantVars == <<groups, activeGroupId, currentFolderToken, loadPending,
    tenantRootCache, op, alert, edits, parseVars, scanVars, nameVars,
    listVars, poolVars, taskVars, transferVars, removeVars,
    renameVars, keyVars, formVars, moveVars, loadVars,
    triggerVars,
    mountVars,
    busyVars,
    searchVars,
    pickerVars,
    fileRenameVars>>
nonRenameVars == <<routeVars, parseVars, scanVars, nameVars,
    listVars, poolVars, taskVars, transferVars,
    removeVars, reorderVars,
    keyVars,
    formVars,
    moveVars,
    loadVars,
    triggerVars,
    mountVars,
    busyVars,
    searchVars,
    pickerVars,
    fileRenameVars>>
nonKeyVars == <<routeVars, parseVars, scanVars, nameVars,
    listVars, poolVars, taskVars, transferVars,
    removeVars, reorderVars, renameVars,
    formVars,
    moveVars,
    loadVars,
    triggerVars,
    mountVars,
    busyVars,
    searchVars,
    pickerVars,
    fileRenameVars>>
nonFormVars == <<routeVars, parseVars, scanVars, nameVars,
    listVars, poolVars, taskVars, transferVars,
    removeVars, reorderVars, renameVars, keyVars,
    moveVars,
    loadVars,
    triggerVars,
    mountVars,
    busyVars,
    searchVars,
    pickerVars,
    fileRenameVars>>
nonMoveVars == <<routeVars, parseVars, scanVars, nameVars,
    listVars, poolVars, taskVars, transferVars,
    removeVars, reorderVars, renameVars, keyVars,
    formVars,
    loadVars,
    triggerVars,
    mountVars,
    busyVars,
    searchVars,
    pickerVars,
    fileRenameVars>>
nonLoadVars == <<routeVars, parseVars, scanVars, nameVars,
    listVars, poolVars, taskVars, transferVars,
    removeVars, reorderVars, renameVars, keyVars,
    formVars, moveVars,
    triggerVars,
    mountVars,
    busyVars,
    searchVars,
    pickerVars,
    fileRenameVars>>
nonTriggerVars == <<routeVars, parseVars, scanVars, nameVars,
    listVars, poolVars, taskVars, transferVars,
    removeVars, reorderVars, renameVars, keyVars,
    formVars, moveVars, loadVars,
    mountVars,
    busyVars,
    searchVars,
    pickerVars,
    fileRenameVars>>
nonMountVars == <<routeVars, parseVars, scanVars, nameVars,
    listVars, poolVars, taskVars, transferVars,
    removeVars, reorderVars, renameVars, keyVars,
    formVars, moveVars, loadVars, triggerVars,
    busyVars,
    searchVars,
    pickerVars,
    fileRenameVars>>
nonBusyVars == <<routeVars, parseVars, scanVars, nameVars,
    listVars, poolVars, taskVars, transferVars,
    removeVars, reorderVars, renameVars, keyVars,
    formVars, moveVars, loadVars, triggerVars,
    mountVars,
    searchVars,
    pickerVars,
    fileRenameVars>>
nonSearchVars == <<routeVars, parseVars, scanVars, nameVars,
    listVars, poolVars, taskVars, transferVars,
    removeVars, reorderVars, renameVars, keyVars,
    formVars, moveVars, loadVars, triggerVars,
    mountVars, busyVars,
    pickerVars,
    fileRenameVars>>
nonPickerVars == <<routeVars, parseVars, scanVars, nameVars,
    listVars, poolVars, taskVars, transferVars,
    removeVars, reorderVars, renameVars, keyVars,
    formVars, moveVars, loadVars, triggerVars,
    mountVars, busyVars, searchVars,
    fileRenameVars>>
nonFileRenameVars == <<routeVars, parseVars, scanVars, nameVars,
    listVars, poolVars, taskVars, transferVars,
    removeVars, reorderVars, renameVars, keyVars,
    formVars, moveVars, loadVars, triggerVars,
    mountVars, busyVars, searchVars, pickerVars>>
vars == <<routeVars, parseVars, scanVars, extraVars>>

(***************************************************************************)
(* Bounds of the model                                                     *)
(***************************************************************************)
MaxEdits == 2

TenantIds == {"A", "B", "C"}
GroupIds == {"g1", "g2"}

(***************************************************************************)
(* Tenant registry and groups                                              *)
(***************************************************************************)
EPSILON == 1

Tenant(id, order, active, permission, quota, used) ==
    [id |-> id, order |-> order, active |-> active, permission |-> permission,
     quota_gb |-> quota, used_gb |-> used]

Group(id, ids) == [id |-> id, tenantIds |-> ids]

NoToken == [tenant |-> "", kind |-> "none"]
RootToken(t) == [tenant |-> t, kind |-> "root"]
FolderToken(t) == [tenant |-> t, kind |-> "folder"]

Range(s) == {s[i] : i \in 1..Len(s)}

RECURSIVE InsertByOrder(_, _)
InsertByOrder(sorted, t) ==
    IF sorted = <<>> THEN <<t>>
    ELSE IF Head(sorted).order <= t.order
         THEN <<Head(sorted)>> \o InsertByOrder(Tail(sorted), t)
         ELSE <<t>> \o sorted

SortByOrder_unsorted(list) == list

RECURSIVE SortByOrder(_)
SortByOrder(list) ==
    IF list = <<>> THEN <<>>
    ELSE InsertByOrder(SortByOrder(SubSeq(list, 1, Len(list) - 1)), list[Len(list)])

currentGroup ==
    LET hits == SelectSeq(groups, LAMBDA g : g.id = activeGroupId)
    IN  IF hits = <<>> THEN [id |-> "", tenantIds |-> {}] ELSE Head(hits)

groupFilterActive == activeGroupId # ""

allGroupTenantIds == UNION {g.tenantIds : g \in Range(groups)}

selectedGroupTenantIds ==
    LET fallback == {t.id : t \in {x \in Range(tenants) : x.active}}
    IN  IF groups = <<>> THEN fallback
        ELSE IF groupFilterActive
             THEN IF currentGroup.tenantIds # {} THEN currentGroup.tenantIds ELSE fallback
             ELSE IF allGroupTenantIds # {} THEN allGroupTenantIds ELSE fallback

sortedTenants == SortByOrder(tenants)

allActiveTenants == SelectSeq(sortedTenants, LAMBDA t : t.active)

availableTenants ==
    LET allow == selectedGroupTenantIds
    IN  IF allow = {} THEN <<>>
        ELSE SelectSeq(allActiveTenants, LAMBDA t : t.id \in allow)

selectByCapacity_usedShare(candidates) ==
    LET fits == SelectSeq(candidates, LAMBDA t : t.used_gb * 100 < t.quota_gb * 99)
    IN  IF fits = <<>> THEN "" ELSE Head(fits).id

selectByCapacity(candidates) ==
    LET fits == SelectSeq(candidates, LAMBDA t : t.quota_gb - t.used_gb > EPSILON)
    IN  IF fits = <<>> THEN "" ELSE Head(fits).id

pickAutoTenant_reasonFromOrdered ==
    LET ordered == SortByOrder(availableTenants)
        writable == SelectSeq(ordered, LAMBDA t : t.permission # "read_only")
        writableCandidate == selectByCapacity(writable)
    IN  IF writableCandidate # "" THEN [tenant |-> writableCandidate, reason |-> "none"]
        ELSE IF ordered # <<>> THEN [tenant |-> "", reason |-> "capacity"]
        ELSE [tenant |-> "", reason |-> "permission"]

pickAutoTenant ==
    LET ordered == SortByOrder(availableTenants)
        writable == SelectSeq(ordered, LAMBDA t : t.permission # "read_only")
        writableCandidate == selectByCapacity(writable)
    IN  IF writableCandidate # "" THEN [tenant |-> writableCandidate, reason |-> "none"]
        ELSE IF writable # <<>> THEN [tenant |-> "", reason |-> "capacity"]
        ELSE [tenant |-> "", reason |-> "permission"]

ensureParentToken == currentFolderToken

IdleOp == [pc |-> "idle", kind |-> "none", parent |-> NoToken, tenant |-> ""]

\* handleCreateFolder; handleUpload and handleDroppedPaths
Handlers == {"create", "upload"}
Commands(kind) ==
    IF kind = "create" THEN {"create_folder"} ELSE {"upload_file", "upload_folder"}
UsedValues == {10000, 100000}
MemberSets == {{}, {"C"}, TenantIds}

\* Answers of list_tenants / list_groups at application start.
InitRegistries ==
    { <<Tenant("B", 2, TRUE, "read_write", 100000, 10000),
        Tenant("C", 3, TRUE, "read_only", 100000, 10000),
        Tenant("A", 1, TRUE, "read_write", 100000, usedA)>> : usedA \in {99900, 100000} }

InitGroups ==
    { <<>>,
      <<Group("g1", {"A", "B"})>>,
      <<Group("g1", {"A", "B", "C"}), Group("g2", {"C"})>> }

InitRoute ==
    /\ tenants = <<>>
    /\ groups = <<>>
    /\ activeGroupId = ""
    /\ currentFolderToken = NoToken
    /\ loadPending = FALSE
    /\ tenantRootCache = {}
    /\ op = IdleOp
    /\ alert = "none"
    /\ edits = 0

(***************************************************************************)
(* Write handlers of the home view                                         *)
(***************************************************************************)
\* ensureWritableParentToken up to its first network await, as called by
\* handleCreateFolder, handleUpload and uploadPathsToParent.  `entry` is the
\* folder entry a drop is aimed at (NoToken when there is none).
ensureWritableParentToken(kind, entry) ==
    LET parentToken == IF entry # NoToken THEN entry ELSE ensureParentToken
    IN  IF parentToken # NoToken
        THEN /\ op' = [pc |-> "ready", kind |-> kind, parent |-> parentToken, tenant |-> ""]
             /\ UNCHANGED alert
        ELSE LET pick == pickAutoTenant
             IN  IF pick.tenant = ""
                 THEN /\ alert' = pick.reason
                      /\ op' = IdleOp
                 ELSE /\ op' = IF pick.tenant \in tenantRootCache
                                THEN [pc |-> "ready", kind |-> kind,
                                      parent |-> RootToken(pick.tenant), tenant |-> pick.tenant]
                                ELSE [pc |-> "root", kind |-> kind,
                                      parent |-> NoToken, tenant |-> pick.tenant]
                      /\ UNCHANGED alert

StartWrite(kind, entry) ==
    /\ op.pc = "idle"
    /\ alert = "none"
    /\ entry \in {NoToken} \cup {FolderToken(t.id) : t \in Range(availableTenants)}
    /\ kind = "create" => entry = NoToken
    /\ ensureWritableParentToken(kind, entry)
    /\ UNCHANGED <<tenants, groups, activeGroupId, currentFolderToken, loadPending,
                   tenantRootCache, edits>>
    /\ UNCHANGED <<parseVars, scanVars, extraVars>>

\* ensureTenantRootToken: list_root_entries answers with the tenant's root token.
RootTokenReturned ==
    /\ op.pc = "root"
    /\ alert = "none"
    /\ tenantRootCache' = tenantRootCache \cup {op.tenant}
    /\ op' = [op EXCEPT !.pc = "ready", !.parent = RootToken(op.tenant)]
    /\ UNCHANGED <<tenants, groups, activeGroupId, currentFolderToken, loadPending,
                   alert, edits>>
    /\ UNCHANGED <<parseVars, scanVars, extraVars>>

\* list_root_entries answers with an empty rootToken: "请先加载一个文件夹".
RootTokenEmpty ==
    /\ op.pc = "root"
    /\ alert = "none"
    /\ alert' = "no_folder"
    /\ op' = IdleOp
    /\ UNCHANGED <<tenants, groups, activeGroupId, currentFolderToken, loadPending,
                   tenantRootCache, edits>>
    /\ UNCHANGED <<parseVars, scanVars, extraVars>>

\* list_root_entries rejects: the handler ends; withBusy (create folder) alerts.
RootTokenFailed ==
    /\ op.pc = "root"
    /\ alert = "none"
    /\ alert' = IF op.kind = "create" THEN "error" ELSE alert
    /\ op' = IdleOp
    /\ UNCHANGED <<tenants, groups, activeGroupId, currentFolderToken, loadPending,
                   tenantRootCache, edits>>
    /\ UNCHANGED <<parseVars, scanVars, extraVars>>

\* The name was entered / the paths were picked and ensureUniqueName passed:
\* create_folder, upload_file or upload_folder is invoked on the parent token.
IssueWrite(cmd) ==
    /\ op.pc = "ready"
    /\ alert = "none"
    /\ cmd \in Commands(op.kind)
    /\ op' = [op EXCEPT !.pc = "invoked", !.kind = cmd]
    /\ UNCHANGED <<tenants, groups, activeGroupId, currentFolderToken, loadPending,
                   tenantRootCache, alert, edits>>
    /\ UNCHANGED <<parseVars, scanVars, extraVars>>

\* The backend answers the write request; the handler refreshes and returns.
WriteCompleted ==
    /\ op.pc = "invoked"
    /\ alert = "none"
    /\ op' = IdleOp
    /\ UNCHANGED <<tenants, groups, activeGroupId, currentFolderToken, loadPending,
                   tenantRootCache, alert, edits>>
    /\ UNCHANGED <<parseVars, scanVars, extraVars>>

\* The prompt or the file dialog was cancelled: the handler returns.
CancelWrite ==
    /\ op.pc = "ready"
    /\ alert = "none"
    /\ op' = IdleOp
    /\ UNCHANGED <<tenants, groups, activeGroupId, currentFolderToken, loadPending,
                   tenantRootCache, alert, edits>>
    /\ UNCHANGED <<parseVars, scanVars, extraVars>>

\* ensureUniqueName found the name in the parent: alert, no request.
DuplicateName ==
    /\ op.pc = "ready"
    /\ alert = "none"
    /\ alert' = "duplicate"
    /\ op' = IdleOp
    /\ UNCHANGED <<tenants, groups, activeGroupId, currentFolderToken, loadPending,
                   tenantRootCache, edits>>
    /\ UNCHANGED <<parseVars, scanVars, extraVars>>

DismissAlert ==
    /\ alert # "none"
    /\ alert' = "none"
    /\ UNCHANGED <<tenants, groups, activeGroupId, currentFolderToken, loadPending,
                   tenantRootCache, op, edits>>
    /\ UNCHANGED <<parseVars, scanVars, extraVars>>

(***************************************************************************)
(* Navigation and group selection                                          *)
(***************************************************************************)
\* openItem -> explorerStore.loadFolder on a folder entry of the listing.
OpenFolder(t) ==
    /\ alert = "none"
    /\ t \in {x.id : x \in Range(availableTenants)}
    /\ currentFolderToken' = FolderToken(t)
    /\ UNCHANGED <<tenants, groups, activeGroupId, loadPending, tenantRootCache,
                   op, alert, edits>>
    /\ UNCHANGED <<parseVars, scanVars, extraVars>>

groupOptions == SelectSeq(groups, LAMBDA g : g.tenantIds # {})

\* The group filter is changed; the selectedGroupId watcher starts performLoad(null).
SelectGroup(g) ==
    /\ alert = "none"
    /\ g \in {""} \cup {x.id : x \in Range(groupOptions)}
    /\ g # activeGroupId
    /\ activeGroupId' = g
    /\ loadPending' = TRUE
    /\ UNCHANGED <<tenants, groups, currentFolderToken, tenantRootCache, op,
                   alert, edits>>
    /\ UNCHANGED <<parseVars, scanVars, extraVars>>

\* loadAggregatedView / applyAggregatedEntries: the aggregated root is shown.
AggregatedLoaded ==
    /\ loadPending
    /\ loadPending' = FALSE
    /\ currentFolderToken' = NoToken
    /\ UNCHANGED <<tenants, groups, activeGroupId, tenantRootCache, op, alert, edits>>
    /\ UNCHANGED <<parseVars, scanVars, extraVars>>

(***************************************************************************)
(* Registry loads and edits (tenantStore / groupStore actions; each edit   *)
(* is followed by the reload of the aggregated root that the home view     *)
(* starts when its watchers fire or when it is mounted again)              *)
(***************************************************************************)
\* App onMounted: tenantStore.fetchTenants stores the backend's list as is.
FetchTenants ==
    /\ tenants = <<>>
    /\ alert = "none"
    /\ tenants' \in InitRegistries
    /\ loadPending' = TRUE
    /\ UNCHANGED <<groups, activeGroupId, currentFolderToken, tenantRootCache, op,
                   alert, edits>>
    /\ UNCHANGED <<parseVars, scanVars, extraVars>>

\* App onMounted: groupStore.fetchGroups.
FetchGroups ==
    /\ groups = <<>>
    /\ alert = "none"
    /\ groups' \in InitGroups \ {<<>>}
    /\ loadPending' = TRUE
    /\ UNCHANGED <<tenants, activeGroupId, currentFolderToken, tenantRootCache, op,
                   alert, edits>>
    /\ UNCHANGED <<parseVars, scanVars, extraVars>>

\* tenantStore.updateTenant({active}) followed by fetchTenants.
SetTenantActive(i) ==
    /\ edits < MaxEdits
    /\ alert = "none"
    /\ i \in 1..Len(tenants)
    /\ tenants' = [tenants EXCEPT ![i].active = ~tenants[i].active]
    /\ edits' = edits + 1
    /\ loadPending' = TRUE
    /\ UNCHANGED <<groups, activeGroupId, currentFolderToken, tenantRootCache, op,
                   alert>>
    /\ UNCHANGED <<parseVars, scanVars, extraVars>>

\* tenantStore.updateTenant({permission}) followed by fetchTenants.
SetTenantPermission(i) ==
    /\ edits < MaxEdits
    /\ alert = "none"
    /\ i \in 1..Len(tenants)
    /\ tenants' = [tenants EXCEPT ![i].permission =
                       IF tenants[i].permission = "read_only" THEN "read_write"
                       ELSE "read_only"]
    /\ edits' = edits + 1
    /\ loadPending' = TRUE
    /\ UNCHANGED <<groups, activeGroupId, currentFolderToken, tenantRootCache, op,
                   alert>>
    /\ UNCHANGED <<parseVars, scanVars, extraVars>>

\* tenantStore.refreshTenant / fetchTenants: the backend reports another usage.
RefreshUsage(i, used) ==
    /\ edits < MaxEdits
    /\ alert = "none"
    /\ i \in 1..Len(tenants)
    /\ used # tenants[i].used_gb
    /\ tenants' = [tenants EXCEPT ![i].used_gb = used]
    /\ edits' = edits + 1
    /\ loadPending' = TRUE
    /\ UNCHANGED <<groups, activeGroupId, currentFolderToken, tenantRootCache, op,
                   alert>>
    /\ UNCHANGED <<parseVars, scanVars, extraVars>>

\* tenantStore.reorder: the tenants at positions i and j exchange their order
\* values and the array is sorted by order.
reorder(i, j) ==
    SortByOrder([k \in 1..Len(tenants) |->
        IF k = i THEN [tenants[k] EXCEPT !.order = tenants[j].order]
        ELSE IF k = j THEN [tenants[k] EXCEPT !.order = tenants[i].order]
        ELSE tenants[k]])

Reorder(i, j) ==
    /\ edits < MaxEdits
    /\ alert = "none"
    /\ i \in 1..Len(tenants)
    /\ j \in 1..Len(tenants)
    /\ i < j
    /\ tenants' = reorder(i, j)
    /\ edits' = edits + 1
    /\ loadPending' = TRUE
    /\ UNCHANGED <<groups, activeGroupId, currentFolderToken, tenantRootCache, op,
                   alert>>
    /\ UNCHANGED <<parseVars, scanVars, extraVars>>

\* groupStore.updateGroup from the group dialog (any member set, also none).
UpdateGroup(i, ids) ==
    /\ edits < MaxEdits
    /\ alert = "none"
    /\ i \in 1..Len(groups)
    /\ ids # groups[i].tenantIds
    /\ groups' = [groups EXCEPT ![i].tenantIds = ids]
    /\ edits' = edits + 1
    /\ loadPending' = TRUE
    /\ UNCHANGED <<tenants, activeGroupId, currentFolderToken, tenantRootCache, op,
                   alert>>
    /\ UNCHANGED <<parseVars, scanVars, extraVars>>

\* groupStore.removeGroup from the group view.
RemoveGroup(i) ==
    /\ edits < MaxEdits
    /\ alert = "none"
    /\ i \in 1..Len(groups)
    /\ groups' = SelectSeq(groups, LAMBDA g : g.id # groups[i].id)
    /\ edits' = edits + 1
    /\ loadPending' = TRUE
    /\ UNCHANGED <<tenants, activeGroupId, currentFolderToken, tenantRootCache, op,
                   alert>>
    /\ UNCHANGED <<parseVars, scanVars, extraVars>>

NextRoute ==
    \/ \E kind \in Handlers, entry \in {NoToken} \cup {FolderToken(t) : t \in TenantIds} :
          StartWrite(kind, entry)
    \/ RootTokenReturned
    \/ RootTokenEmpty
    \/ RootTokenFailed
    \/ \E cmd \in {"create_folder", "upload_file", "upload_folder"} : IssueWrite(cmd)
    \/ WriteCompleted
    \/ CancelWrite
    \/ DuplicateName
    \/ DismissAlert
    \/ \E t \in TenantIds : OpenFolder(t)
    \/ \E g \in GroupIds \cup {""} : SelectGroup(g)
    \/ AggregatedLoaded
    \/ FetchTenants
    \/ FetchGroups
    \/ \E i \in 1..Cardinality(TenantIds) : SetTenantActive(i)
    \/ \E i \in 1..Cardinality(TenantIds) : SetTenantPermission(i)
    \/ \E i \in 1..Cardinality(TenantIds), used \in UsedValues : RefreshUsage(i, used)
    \/ \E i, j \in 1..Cardinality(TenantIds) : Reorder(i, j)
    \/ \E i \in 1..Cardinality(GroupIds), ids \in MemberSets : UpdateGroup(i, ids)
    \/ \E i \in 1..Cardinality(GroupIds) : RemoveGroup(i)

(***************************************************************************)
(* Rest states of the parts of the client that a specification leaves       *)
(* alone.                                                                   *)
(***************************************************************************)
Names == {"x", "y"}

IdleNameOp == [pc |-> "idle", cmd |-> "none", queue |-> <<>>, current |-> FALSE]

IdleNames ==
    /\ remoteNames = [n \in Names |-> 0]
    /\ rawEntries = {}
    /\ nameOp = IdleNameOp

IdleListing ==
    /\ entries = <<>>
    /\ globalResults = {}
    /\ destinationItems = <<>>
    /\ shown = {}

IdlePoolState ==
    [pc |-> "idle", factories |-> 0, cursor |-> 0, running |-> {}, workers |-> 0,
     results |-> {}, rejected |-> FALSE]

IdlePool == pool = IdlePoolState

TaskIds == {"t1", "t2"}

IdleTasks ==
    /\ tasks = [id \in TaskIds |-> "idle"]
    /\ triggerRequests = [id \in TaskIds |-> 0]
    /\ engineStatus = [id \in TaskIds |-> "idle"]

TransferIds == {"u1", "u2"}

NoRecord == [status |-> "absent", updated_at |-> 0]

NoFetch == [pc |-> "idle", items |-> [id \in TransferIds |-> NoRecord]]

IdleTransfers ==
    /\ transferTasks = [id \in TransferIds |-> NoRecord]
    /\ engineTasks = [id \in TransferIds |-> NoRecord]
    /\ clock = 0
    /\ events = <<>>
    /\ fetchState = NoFetch
    /\ initPc = "start"
    /\ issued = {}

IdleRemove ==
    /\ registry = <<>>
    /\ registryGroups = <<>>
    /\ removePc = "idle"

IdleReorder ==
    reorderState = [calls |-> <<>>, last |-> <<>>]

IdleRename ==
    renameOp = [pc |-> "idle", children |-> <<>>, rest |-> <<>>, log |-> <<>>,
                content |-> {}, newContent |-> {}, newExists |-> FALSE, oldExists |-> TRUE]

IdleKey ==
    keyState = [apiKey |-> 0, local |-> 0, server |-> 0, generating |-> "null",
                iife |-> "none", iifeKey |-> 0, regen |-> [c \in {} |-> "none"],
                gets |-> 0, updates |-> 0, fresh |-> 0, callers |-> [c \in {} |-> 0]]

IdleForm ==
    formState = [tasks |-> <<>>, requests |-> <<>>, pending |-> <<>>, attempt |-> <<>>]

IdleMove ==
    moveState = [location |-> "", targets |-> {}, visible |-> FALSE, stack |-> <<>>,
                 requests |-> <<>>]

IdleLoad ==
    loadState = [activeLoadTicket |-> 0, started |-> 0, inflight |-> {},
                 currentTenantId |-> "", currentFolderToken |-> "",
                 entriesFrom |-> 0, tokenFrom |-> 0, staleApplied |-> FALSE]

IdleTrigger ==
    triggerState = [tasks |-> <<>>, backend |-> <<>>, reported |-> <<>>, pc |-> <<>>,
                    settled |-> 0]

IdleMount ==
    mountState = [initialized |-> FALSE, listeners |-> 0, pc |-> <<>>, mounts |-> 0,
                  applied |-> <<>>]

IdleBusy ==
    busyState = [actionBusy |-> FALSE, pc |-> <<>>, alerts |-> 0, calls |-> 0]

IdleSearch ==
    searchState = [searchRunId |-> 0, appliedKeyword |-> <<>>, globalResults |-> {},
                   searching |-> FALSE, runs |-> <<>>, live |-> 0]

IdlePicker ==
    pickerState = [groupId |-> "", remote |-> [token |-> "", tenantId |-> ""],
                   visible |-> FALSE, allowed |-> {}, stack |-> <<>>, items |-> {},
                   resolve |-> FALSE, loads |-> {},
                   payload |-> [sent |-> FALSE, groupId |-> "", tenantId |-> "",
                                remoteFolderToken |-> ""]]

IdleFileRename ==
    fileRename = [files |-> {}, rawEntries |-> {}, current |-> FALSE, queue |-> <<>>,
                  pc |-> "idle", log |-> <<>>, calls |-> 0]

IdleExtra ==
    IdleNames /\ IdleListing /\ IdlePool /\ IdleTasks /\ IdleTransfers /\ IdleRemove /\ IdleReorder /\ IdleRename /\ IdleKey /\ IdleForm /\ IdleMove /\ IdleLoad /\ IdleTrigger /\ IdleMount /\ IdleBusy /\ IdleSearch /\ IdlePicker /\ IdleFileRename

(***************************************************************************)
(* Properties of write-target selection                                    *)
(***************************************************************************)
\* The tenants write-target selection may choose from: active, in the scope
\* selected in the home view (the id set selectedGroupTenantIds the view
\* derives from the group filter) and not read_only.
EligibleTenants ==
    {t \in Range(tenants) :
        t.active /\ t.id \in selectedGroupTenantIds /\ t.permission # "read_only"}

\* ... of which those with quota - used above epsilon.
FittingTenants == {t \in EligibleTenants : t.quota_gb - t.used_gb > EPSILON}

\* A step in which a handler ran pickAutoTenant (no parent folder was open and
\* no drop target was given) and a tenant came out of it.
PickedStep == op.pc = "idle" /\ op'.pc # "idle" /\ op'.tenant # ""

\* A step in which pickAutoTenant found no tenant.
PickFailedStep == alert = "none" /\ alert' \in {"permission", "capacity"}

\* C1: write-target selection returns the tenant with the smallest order among
\* the active, in-scope, not read_only tenants whose quota - used exceeds
\* epsilon; it returns a tenant whenever there is one, and never an inactive,
\* out-of-scope, read_only or full tenant.
C1_PickFirstFit ==
    [][ /\ PickedStep =>
            \E t \in FittingTenants :
                /\ t.id = op'.tenant
                /\ \A u \in FittingTenants : t.order <= u.order
        /\ PickFailedStep => FittingTenants = {} ]_vars

C1_Witness ==
    /\ op.pc = "root"
    /\ \E t \in FittingTenants, skipped \in EligibleTenants :
          /\ t.id = op.tenant
          /\ skipped.order < t.order
          /\ skipped.quota_gb - skipped.used_gb <= EPSILON
    /\ \E t \in Range(tenants) : t.id = op.tenant /\ tenants[1].id # t.id

\* C2: when selection finds no tenant the reason is 'capacity' exactly when an
\* active in-scope read_write tenant exists (all of them full), 'permission'
\* exactly when none exists; the handler ends without a parent token and
\* without issuing create_folder / upload_file / upload_folder.
C2_FailureReason ==
    [][ PickFailedStep =>
            /\ FittingTenants = {}
            /\ (alert' = "capacity") <=> (EligibleTenants # {})
            /\ (alert' = "permission") <=> (EligibleTenants = {})
            /\ op'.pc = "idle"
            /\ op'.parent = NoToken ]_vars

C2_Witness ==
    /\ alert = "capacity"
    /\ op = IdleOp
    /\ EligibleTenants # {}
    /\ FittingTenants = {}

\* The registry of the capacity-aware routing scenario: the writable tenants in
\* scope are A (order 1, used 99.9 of 100 GB) and B (order 2, used 10 of 100 GB).
ScenarioRegistry(usedA) ==
    /\ {t.id : t \in EligibleTenants} = {"A", "B"}
    /\ \E a \in EligibleTenants :
          a.id = "A" /\ a.order = 1 /\ a.quota_gb = 100000 /\ a.used_gb = usedA
    /\ \E b \in EligibleTenants :
          b.id = "B" /\ b.order = 2 /\ b.quota_gb = 100000 /\ b.used_gb = 10000

\* C3 as stated: in the scenario (A used = 99.9) selection picks B.
C3_ScenarioPicksB ==
    [][ (PickedStep /\ ScenarioRegistry(99900)) => op'.tenant = "B" ]_vars

\* C3 amended: in the scenario selection picks A, whose free 0.1 GB exceeds
\* epsilon = 0.001 GB; B is picked once A has no free space (used = 100).
C3_ScenarioPicksA ==
    [][ /\ (PickedStep /\ ScenarioRegistry(99900)) => op'.tenant = "A"
        /\ (PickedStep /\ ScenarioRegistry(100000)) => op'.tenant = "B"
        /\ ~(PickFailedStep /\ (ScenarioRegistry(99900) \/ ScenarioRegistry(100000))) ]_vars

C3_Witness ==
    /\ op.pc = "root"
    /\ op.tenant = "A"
    /\ ScenarioRegistry(99900)

(***************************************************************************)
(* Cron utilities (utils/cron).  A string is a sequence of one-character   *)
(* strings.  Number() is modelled on the texts the inputs use: digits with *)
(* an optional leading minus sign, the empty text (0), anything else NaN.  *)
(***************************************************************************)
IsSpace(c) == c \in {" ", "\t"}

RECURSIVE TrimLeft(_)
TrimLeft(s) == IF s # <<>> /\ IsSpace(Head(s)) THEN TrimLeft(Tail(s)) ELSE s

RECURSIVE TrimRight(_)
TrimRight(s) ==
    IF s # <<>> /\ IsSpace(s[Len(s)]) THEN TrimRight(SubSeq(s, 1, Len(s) - 1)) ELSE s

trim(s) == TrimRight(TrimLeft(s))

\* replace(/\s+/g, ' ')
RECURSIVE CollapseSpaces_firstOnly(_)
CollapseSpaces_firstOnly(s) ==
    IF s = <<>> THEN <<>>
    ELSE IF IsSpace(Head(s))
         THEN <<" ">> \o CollapseSpaces_firstOnly(
                  IF Len(s) > 1 /\ IsSpace(s[2]) THEN Tail(Tail(s)) ELSE Tail(s))
         ELSE <<Head(s)>> \o CollapseSpaces_firstOnly(Tail(s))

RECURSIVE CollapseSpaces(_)
CollapseSpaces(s) ==
    IF s = <<>> THEN <<>>
    ELSE IF IsSpace(Head(s)) THEN <<" ">> \o CollapseSpaces(TrimLeft(s))
         ELSE <<Head(s)>> \o CollapseSpaces(Tail(s))

normalize(expression) == CollapseSpaces(trim(expression))

normalizeCronExpression(expression) == normalize(expression)

\* String.prototype.split on a one-character separator
RECURSIVE split(_, _)
split(s, sep) ==
    IF \E i \in 1..Len(s) : s[i] = sep
    THEN LET at == CHOOSE i \in 1..Len(s) :
                       s[i] = sep /\ \A j \in 1..(i - 1) : s[j] # sep
         IN  <<SubSeq(s, 1, at - 1)>> \o split(SubSeq(s, at + 1, Len(s)), sep)
    ELSE <<s>>

includes(s, c) == \E i \in 1..Len(s) : s[i] = c

DigitChars == {"0", "1", "2", "3", "4", "5", "6", "7", "8", "9"}
DigitValue(c) ==
    CASE c = "0" -> 0 [] c = "1" -> 1 [] c = "2" -> 2 [] c = "3" -> 3 [] c = "4" -> 4
      [] c = "5" -> 5 [] c = "6" -> 6 [] c = "7" -> 7 [] c = "8" -> 8 [] c = "9" -> 9

RECURSIVE DecimalValue(_)
DecimalValue(s) ==
    IF s = <<>> THEN 0
    ELSE 10 * DecimalValue(SubSeq(s, 1, Len(s) - 1)) + DigitValue(s[Len(s)])

NaN == [nan |-> TRUE, value |-> 0]
Num(v) == [nan |-> FALSE, value |-> v]

\* Number(text)
Number(text) ==
    IF text = <<>> THEN Num(0)
    ELSE IF \A i \in 1..Len(text) : text[i] \in DigitChars THEN Num(DecimalValue(text))
    ELSE IF /\ Head(text) = "-"
            /\ Len(text) > 1
            /\ \A i \in 2..Len(text) : text[i] \in DigitChars
         THEN Num(0 - DecimalValue(Tail(text)))
    ELSE NaN

LowerChar(c) ==
    CASE c = "M" -> "m" [] c = "O" -> "o" [] c = "N" -> "n" [] c = "S" -> "s"
      [] c = "U" -> "u" [] OTHER -> c

toLowerCase(s) == [i \in 1..Len(s) |-> LowerChar(s[i])]

MONTH_ALIASES ==
    (<<"j", "a", "n">> :> 1) @@ (<<"f", "e", "b">> :> 2) @@ (<<"m", "a", "r">> :> 3) @@
    (<<"a", "p", "r">> :> 4) @@ (<<"m", "a", "y">> :> 5) @@ (<<"j", "u", "n">> :> 6) @@
    (<<"j", "u", "l">> :> 7) @@ (<<"a", "u", "g">> :> 8) @@ (<<"s", "e", "p">> :> 9) @@
    (<<"o", "c", "t">> :> 10) @@ (<<"n", "o", "v">> :> 11) @@ (<<"d", "e", "c">> :> 12)

WEEK_ALIASES ==
    (<<"s", "u", "n">> :> 0) @@ (<<"m", "o", "n">> :> 1) @@ (<<"t", "u", "e">> :> 2) @@
    (<<"w", "e", "d">> :> 3) @@ (<<"t", "h", "u">> :> 4) @@ (<<"f", "r", "i">> :> 5) @@
    (<<"s", "a", "t">> :> 6)

NoAliases == <<>>

range_stepIgnored(start, end, step) == start..end

range(start, end, step) == {value \in start..end : (value - start) % step = 0}

clamp_none(value, min, max) == value

clamp(value, min, max) ==
    LET lower == IF value > min THEN value ELSE min
    IN  IF lower < max THEN lower ELSE max

parseAlias(value, dict, allowWrap) ==
    LET lowered == toLowerCase(value)
        parsedNumber == Number(value)
    IN  IF lowered \in DOMAIN dict THEN Num(dict[lowered])
        ELSE IF parsedNumber.nan THEN NaN
        ELSE IF allowWrap /\ parsedNumber.value = 7 THEN Num(0)
        ELSE parsedNumber

Thrown == [ok |-> FALSE, wildcard |-> FALSE, values |-> {}]

\* One pass of the `for (const rawItem of items)` loop of expandToken.
expandItem(rawItem, min, max, aliasDict, allowWrap) ==
    LET item == trim(rawItem)
        pieces == split(item, "/")
        rangePartRaw == pieces[1]
        hasStep == Len(pieces) > 1 /\ pieces[2] # <<>>
        step == IF hasStep THEN Number(pieces[2]) ELSE Num(1)
        rangePart == trim(rangePartRaw)
        ends == split(rangePart, "-")
        startRaw == parseAlias(ends[1], aliasDict, allowWrap)
        endRaw == parseAlias(ends[2], aliasDict, allowWrap)
        start == clamp(startRaw.value, min, max)
        end == clamp(endRaw.value, min, max)
        single == parseAlias(rangePart, aliasDict, allowWrap)
    IN  IF item = <<>> THEN [ok |-> TRUE, wildcard |-> FALSE, values |-> {}]
        ELSE IF step.nan \/ step.value <= 0 THEN Thrown
        ELSE IF rangePart = <<"*">>
             THEN [ok |-> TRUE, wildcard |-> TRUE, values |-> range(min, max, step.value)]
        ELSE IF includes(rangePart, "-")
             THEN IF startRaw.nan \/ endRaw.nan THEN Thrown
                  ELSE IF end < start THEN Thrown
                  ELSE [ok |-> TRUE, wildcard |-> FALSE,
                        values |-> range(start, end, step.value)]
        ELSE IF single.nan THEN Thrown
        ELSE [ok |-> TRUE, wildcard |-> FALSE, values |-> {clamp(single.value, min, max)}]

RECURSIVE expandItems(_, _, _, _, _)
expandItems(items, min, max, aliasDict, allowWrap) ==
    IF items = <<>> THEN [ok |-> TRUE, wildcard |-> FALSE, values |-> {}]
    ELSE LET first == expandItem(Head(items), min, max, aliasDict, allowWrap)
             rest == expandItems(Tail(items), min, max, aliasDict, allowWrap)
         IN  IF ~first.ok \/ ~rest.ok THEN Thrown
             ELSE [ok |-> TRUE,
                   wildcard |-> first.wildcard \/ rest.wildcard,
                   values |-> first.values \cup rest.values]

expandToken(token, min, max, aliasDict, allowWrap) ==
    LET clean == trim(token)
    IN  IF clean = <<>> THEN Thrown
        ELSE IF clean = <<"?">>
             THEN [ok |-> TRUE, wildcard |-> TRUE, values |-> range(min, max, 1)]
        ELSE expandItems(split(clean, ","), min, max, aliasDict, allowWrap)

toFieldSet(result) == [wildcard |-> result.wildcard, values |-> result.values]

EmptyField == [wildcard |-> FALSE, values |-> {}]
Unparsed ==
    [status |-> "none", source |-> <<>>, minutes |-> EmptyField, hours |-> EmptyField,
     daysOfMonth |-> EmptyField, months |-> EmptyField, daysOfWeek |-> EmptyField]
ParseError == [Unparsed EXCEPT !.status = "error"]

parseCronExpression(text) ==
    LET normalizedText == normalize(text)
        parts == split(normalizedText, " ")
        minuteSet == expandToken(parts[1], 0, 59, NoAliases, FALSE)
        hourSet == expandToken(parts[2], 0, 23, NoAliases, FALSE)
        domSet == expandToken(parts[3], 1, 31, NoAliases, FALSE)
        monthSet == expandToken(parts[4], 1, 12, MONTH_ALIASES, FALSE)
        dowSet == expandToken(parts[5], 0, 6, WEEK_ALIASES, TRUE)
    IN  IF Len(parts) # 5 THEN ParseError
        ELSE IF ~(minuteSet.ok /\ hourSet.ok /\ domSet.ok /\ monthSet.ok /\ dowSet.ok)
             THEN ParseError
        ELSE [status |-> "ok", source |-> normalizedText,
              minutes |-> toFieldSet(minuteSet), hours |-> toFieldSet(hourSet),
              daysOfMonth |-> toFieldSet(domSet), months |-> toFieldSet(monthSet),
              daysOfWeek |-> toFieldSet(dowSet)]

isCronExpressionValid(text) == parseCronExpression(text).status = "ok"

(***************************************************************************)
(* Dates.  An instant is counted from 2025-01-01 00:00:00 local time (a     *)
(* Wednesday): fromDate in seconds, cursor and nextRun in minutes.  The     *)
(* Date getters read local time under a fixed UTC offset (no daylight       *)
(* saving transition), on the civil calendar.                               *)
(***************************************************************************)
EpochYear == 2025
EpochWeekday == 3

isLeapYear(y) == (y % 4 = 0 /\ y % 100 # 0) \/ y % 400 = 0
daysInYear(y) == IF isLeapYear(y) THEN 366 ELSE 365
daysInMonth(y, m) ==
    IF m = 2 THEN (IF isLeapYear(y) THEN 29 ELSE 28)
    ELSE IF m \in {4, 6, 9, 11} THEN 30 ELSE 31

RECURSIVE monthAndDate(_, _, _)
monthAndDate(y, m, d) ==
    IF d < daysInMonth(y, m) THEN [month |-> m, date |-> d + 1]
    ELSE monthAndDate(y, m + 1, d - daysInMonth(y, m))

RECURSIVE civilFromDays(_, _)
civilFromDays(y, d) ==
    IF d < daysInYear(y) THEN monthAndDate(y, 1, d)
    ELSE civilFromDays(y + 1, d - daysInYear(y))

getMinutes(date) == date % 60
getHours(date) == (date \div 60) % 24
getDay(date) == (EpochWeekday + (date \div (24 * 60))) % 7
getDate(date) == civilFromDays(EpochYear, date \div (24 * 60)).date
getMonth(date) == civilFromDays(EpochYear, date \div (24 * 60)).month - 1

matchesField(field, value) == value \in field.values

matchesDay_both(parsedCron, date) ==
    LET domWildcard == parsedCron.daysOfMonth.wildcard
        dowWildcard == parsedCron.daysOfWeek.wildcard
        domMatch == matchesField(parsedCron.daysOfMonth, getDate(date))
        dowMatch == matchesField(parsedCron.daysOfWeek, getDay(date))
    IN  IF domWildcard /\ dowWildcard THEN TRUE
        ELSE IF domWildcard THEN dowMatch
        ELSE IF dowWildcard THEN domMatch
        ELSE domMatch /\ dowMatch

matchesDay(parsedCron, date) ==
    LET domWildcard == parsedCron.daysOfMonth.wildcard
        dowWildcard == parsedCron.daysOfWeek.wildcard
        domMatch == matchesField(parsedCron.daysOfMonth, getDate(date))
        dowMatch == matchesField(parsedCron.daysOfWeek, getDay(date))
    IN  IF domWildcard /\ dowWildcard THEN TRUE
        ELSE IF domWildcard THEN dowMatch
        ELSE IF dowWildcard THEN domMatch
        ELSE domMatch \/ dowMatch

cronMatchesDate(parsedCron, date) ==
    IF ~matchesField(parsedCron.minutes, getMinutes(date)) THEN FALSE
    ELSE IF ~matchesField(parsedCron.hours, getHours(date)) THEN FALSE
    ELSE IF ~matchesField(parsedCron.months, getMonth(date) + 1) THEN FALSE
    ELSE IF ~matchesDay(parsedCron, date) THEN FALSE
    ELSE TRUE

\* cursor = fromDate; cursor.setSeconds(0, 0); cursor.setMinutes(cursor.getMinutes() + 1)
firstCursor_sameMinute(from) == from \div 60

firstCursor(from) == (from \div 60) + 1

limit == 365 * 24 * 60

withinLimit_inclusive(i) == i <= limit

withinLimit(i) == i < limit

NoDate == -1

NotNormalized == [set |-> FALSE, text |-> <<>>]

IdleParse == /\ schedule = <<>> /\ cron = Unparsed /\ normalizedSchedule = NotNormalized
IdleScan ==
    /\ fromDate = 0 /\ cursor = 0 /\ index = 0 /\ scanPc = "idle"
    /\ nextRun = -1 /\ fires = 0 /\ windowEnd = 0

(***************************************************************************)
(* Next-occurrence search: previewNextRun / computeNextOccurrence, one step *)
(* of the loop per action.                                                  *)
(***************************************************************************)
Minutes(days) == days * 24 * 60

\* Task schedules with the instant (seconds) the search is asked from and the
\* end (minute) of the window in which the task keeps firing.
ScanInputs ==
    { [text |-> <<"0", " ", "9", " ", "1", " ", "*", " ", "1">>, from |-> 0, until |-> Minutes(6)],
      [text |-> <<"0", " ", "9", " ", "1", " ", "*", " ", "1">>, from |-> 539 * 60 + 59, until |-> 0],
      [text |-> <<"*", "/", "7", " ", "*", " ", "*", " ", "*", " ", "*">>, from |-> 0, until |-> Minutes(1)],
      [text |-> <<"0", " ", "0", " ", "2", "9", " ", "2", " ", "*">>, from |-> (Minutes(789) - 1) * 60 + 30, until |-> 0],
      [text |-> <<"0", " ", "0", " ", "2", "9", " ", "2", " ", "*">>, from |-> Minutes(789) * 60, until |-> 0],
      [text |-> <<" ", "3", "0", " ", " ", "1", "2", " ", "*", " ", "*", " ", "*">>, from |-> 90, until |-> Minutes(3)],
      [text |-> <<"0", " ", "0", " ", "1", "5", " ", "*", " ", "?">>, from |-> 0, until |-> Minutes(50)],
      [text |-> <<"0", " ", "6", " ", "*", " ", "*", " ", "m", "o", "n", "-", "f", "r", "i">>, from |-> 30, until |-> Minutes(10)],
      [text |-> <<"0", " ", "0", " ", "1", "3", " ", "*", " ", "f", "r", "i">>, from |-> 0, until |-> Minutes(45)],
      [text |-> <<"0", " ", "0", " ", "*", " ", "*">>, from |-> 0, until |-> 0] }

InitCron ==
    /\ InitRoute
    /\ IdleExtra
    /\ \E input \in ScanInputs :
          /\ schedule = input.text
          /\ fromDate = input.from
          /\ windowEnd = input.until
    /\ cron = Unparsed
    /\ normalizedSchedule = NotNormalized
    /\ cursor = 0
    /\ index = 0
    /\ scanPc = "idle"
    /\ nextRun = NoDate
    /\ fires = 0

\* previewNextRun(expression): normalize, then computeNextOccurrence up to the
\* loop; a parse error is caught and yields null.
previewNextRun ==
    /\ scanPc = "idle"
    /\ LET text == normalizeCronExpression(schedule)
           parsedCron == parseCronExpression(text)
       IN  /\ normalizedSchedule' = [set |-> TRUE, text |-> text]
           /\ cron' = parsedCron
           /\ IF parsedCron.status = "ok"
              THEN /\ cursor' = firstCursor(fromDate)
                   /\ index' = 0
                   /\ scanPc' = "loop"
                   /\ UNCHANGED nextRun
              ELSE /\ nextRun' = NoDate
                   /\ scanPc' = "returned"
                   /\ UNCHANGED <<cursor, index>>
    /\ UNCHANGED <<schedule, fromDate, fires, windowEnd, routeVars, extraVars>>

\* if (cronMatchesDate(cron, cursor)) return new Date(cursor.getTime())
LoopMatch ==
    /\ scanPc = "loop"
    /\ withinLimit(index)
    /\ cronMatchesDate(cron, cursor)
    /\ nextRun' = cursor
    /\ scanPc' = "returned"
    /\ UNCHANGED <<schedule, cron, normalizedSchedule, fromDate, cursor, index, fires,
                   windowEnd, routeVars, extraVars>>

\* cursor.setMinutes(cursor.getMinutes() + 1); index += 1
LoopAdvance ==
    /\ scanPc = "loop"
    /\ withinLimit(index)
    /\ ~cronMatchesDate(cron, cursor)
    /\ cursor' = cursor + 1
    /\ index' = index + 1
    /\ UNCHANGED <<schedule, cron, normalizedSchedule, fromDate, scanPc, nextRun, fires,
                   windowEnd, routeVars, extraVars>>

\* the loop ends: return null
LoopExhausted ==
    /\ scanPc = "loop"
    /\ ~withinLimit(index)
    /\ nextRun' = NoDate
    /\ scanPc' = "returned"
    /\ UNCHANGED <<schedule, cron, normalizedSchedule, fromDate, cursor, index, fires,
                   windowEnd, routeVars, extraVars>>

\* The scheduler fires the task at its next run time, inside the window, and
\* the next occurrence is then computed from the fire time.
TaskFired ==
    /\ scanPc = "returned"
    /\ nextRun # NoDate
    /\ nextRun <= windowEnd
    /\ fires' = fires + 1
    /\ fromDate' = nextRun * 60
    /\ scanPc' = "idle"
    /\ UNCHANGED <<schedule, cron, normalizedSchedule, cursor, index, nextRun, windowEnd,
                   routeVars, extraVars>>

NextCron ==
    \/ previewNextRun
    \/ LoopMatch
    \/ LoopAdvance
    \/ LoopExhausted
    \/ TaskFired

SpecCron == InitCron /\ [][NextCron]_vars

(***************************************************************************)
(* Properties of the next-occurrence search                                 *)
(***************************************************************************)
\* The fields of an expression as written: the maximal runs of characters
\* that are not whitespace.
RECURSIVE WhitespaceFields(_)
WhitespaceFields(s) ==
    LET rest == TrimLeft(s)
        stop == IF \E i \in 1..Len(rest) : IsSpace(rest[i])
                THEN CHOOSE i \in 1..Len(rest) :
                         IsSpace(rest[i]) /\ \A j \in 1..(i - 1) : ~IsSpace(rest[j])
                ELSE Len(rest) + 1
    IN  IF rest = <<>> THEN <<>>
        ELSE <<SubSeq(rest, 1, stop - 1)>> \o WhitespaceFields(SubSeq(rest, stop, Len(rest)))

\* A day field is a wildcard when it is written `*` or `?`, restricted otherwise.
WrittenWildcard(fieldText) == fieldText \in {<<"*">>, <<"?">>}

\* The day rule of the scheduler at minute m, for the schedule as written.
DayRule(m) ==
    LET fields == WhitespaceFields(schedule)
        domRestricted == ~WrittenWildcard(fields[3])
        dowRestricted == ~WrittenWildcard(fields[5])
        domIn == getDate(m) \in cron.daysOfMonth.values
        dowIn == getDay(m) \in cron.daysOfWeek.values
    IN  CASE ~domRestricted /\ ~dowRestricted -> TRUE
          [] domRestricted /\ ~dowRestricted -> domIn
          [] ~domRestricted /\ dowRestricted -> dowIn
          [] domRestricted /\ dowRestricted -> domIn \/ dowIn

\* Minute, hour, month and day of minute m all belong to the parsed field sets.
FieldsSatisfied(m) ==
    /\ m % 60 \in cron.minutes.values
    /\ (m \div 60) % 24 \in cron.hours.values
    /\ getMonth(m) + 1 \in cron.months.values
    /\ DayRule(m)

ScanStart == (fromDate \div 60) + 1

Found == scanPc = "returned" /\ nextRun # NoDate

\* C4: computeNextOccurrence(expr, from) returns the earliest minute-aligned
\* instant, scanning from floor(from, minute) + 1 minute, whose minute, hour,
\* month and day belong to the parsed field sets: no matching minute between
\* from and the result is skipped and the result is strictly later than from.
\* (Local time under a fixed UTC offset.)
C4_EarliestOccurrence ==
    Found =>
        /\ nextRun * 60 > fromDate
        /\ nextRun >= ScanStart
        /\ FieldsSatisfied(nextRun)
        /\ \A m \in ScanStart..(nextRun - 1) : ~FieldsSatisfied(m)

C4_Witness ==
    /\ Found
    /\ fires > 0
    /\ fromDate % 60 = 0
    /\ FieldsSatisfied(fromDate \div 60)
    /\ nextRun > ScanStart

ScenarioSchedule == <<"0", " ", "9", " ", "1", " ", "*", " ", "1">>

\* C5: day matching: both day fields wildcards - every day matches; exactly one
\* restricted - that field decides; both restricted - a day matches when either
\* matches.  `0 9 1 * 1` from 2025-01-01 00:00 yields 2025-01-01 09:00 and
\* then 2025-01-06 09:00.
C5_DayMatching ==
    /\ (scanPc = "loop" /\ index < limit) => (matchesDay(cron, cursor) <=> DayRule(cursor))
    /\ (Found /\ schedule = ScenarioSchedule /\ fromDate = 0) => nextRun = 9 * 60
    /\ (Found /\ schedule = ScenarioSchedule /\ fromDate = 9 * 60 * 60)
           => nextRun = Minutes(5) + 9 * 60

C5_Witness ==
    /\ Found
    /\ schedule = ScenarioSchedule
    /\ fires = 1
    /\ fromDate = 9 * 60 * 60
    /\ nextRun = Minutes(5) + 9 * 60
    /\ getDate(nextRun) # 1
    /\ getDay(nextRun) = 1

\* C6: the search terminates: the loop examines consecutive minutes, one per
\* iteration, at most 365*24*60 of them, every iteration can proceed and after
\* the last one only the exit can; it returns null when none of the minutes
\* matches, and never returns an instant beyond that horizon.
C6_BoundedSearch ==
    /\ index <= 365 * 24 * 60
    /\ scanPc = "loop" =>
          /\ cursor = ScanStart + index
          /\ ENABLED (LoopMatch \/ LoopAdvance \/ LoopExhausted)
          /\ index = 365 * 24 * 60 => ~ENABLED (LoopMatch \/ LoopAdvance)
    /\ (scanPc = "returned" /\ cron.status = "ok" /\ nextRun = NoDate) =>
          /\ index = 365 * 24 * 60
          /\ \A m \in ScanStart..(ScanStart + 365 * 24 * 60 - 1) : ~FieldsSatisfied(m)
    /\ Found => nextRun <= ScanStart + 365 * 24 * 60 - 1

C6_Witness ==
    /\ scanPc = "returned"
    /\ cron.status = "ok"
    /\ nextRun = NoDate
    /\ index = 365 * 24 * 60
    /\ FieldsSatisfied(ScanStart + 365 * 24 * 60)

StepSchedule == <<"*", "/", "7", " ", "*", " ", "*", " ", "*", " ", "*">>

WindowClosed == scanPc = "returned" /\ (nextRun = NoDate \/ nextRun > windowEnd)

\* C7 as stated: `*/7 * * * *` fires ceil(1440/7) times in a 24-hour window.
C7_FiresCeilOfDay ==
    (schedule = StepSchedule /\ WindowClosed /\ windowEnd = Minutes(1))
        => fires = (24 * 60 + 6) \div 7

\* C7 amended: `*/7 * * * *` fires 24 * ceil(60/7) = 216 times in a 24-hour
\* window: the step restarts at minute 0 of every hour.
C7_FiresPerHourSteps ==
    (schedule = StepSchedule /\ WindowClosed /\ windowEnd = Minutes(1))
        => /\ fires = 24 * ((60 + 6) \div 7)
           /\ fires = 24 * Cardinality({m \in 0..59 : m % 7 = 0})

C7_Witness ==
    /\ schedule = StepSchedule
    /\ WindowClosed
    /\ windowEnd = Minutes(1)
    /\ fires = 216
    /\ nextRun = Minutes(1) + 7

(***************************************************************************)
(* Task schedules in the task store: validateCron, normalizeTask,           *)
(* updateTask.                                                              *)
(***************************************************************************)
MinuteTexts ==
    { <<"*">>,
      <<"0">>,
      <<"9", "9">>,
      <<"*", "/", "7">>,
      <<"*", "/", "0">>,
      <<"3", "0", "-", "1", "0">>,
      <<"8", "0", "-", "7", "0">>,
      <<"1", "0", "-", "3", "0", "/", "5">>,
      <<"x">>,
      <<"*", "/">>,
      <<"5", "/", "-", "1">> }
HourTexts ==
    { <<"*">>,
      <<"2", "4">>,
      <<"9">> }
DomTexts ==
    { <<"*">>,
      <<"?">>,
      <<"0">>,
      <<"4", "0">>,
      <<"1", "-", "1", "5">> }
MonthTexts ==
    { <<"*">>,
      <<"1", "3">>,
      <<"j", "a", "n", "-", "m", "a", "r">>,
      <<"0">> }
DowTexts ==
    { <<"*">>,
      <<"7">>,
      <<"1", ",", "7">>,
      <<"5", "-", "7">>,
      <<"5", "-", "7", "/", "2">>,
      <<"0", "-", "7">>,
      <<"7", "-", "5">>,
      <<"9">>,
      <<"S", "U", "N">>,
      <<"m", "o", "n", "-", "f", "r", "i">>,
      <<"s", "a", "t", "-", "s", "u", "n">>,
      <<"f", "r", "i">> }
Separators ==
    { <<" ">>,
      <<" ", " ", " ">>,
      <<"\t", " ">> }

\* Array.prototype.join
RECURSIVE join(_, _)
join(parts, sep) ==
    IF parts = <<>> THEN <<>>
    ELSE IF Len(parts) = 1 THEN parts[1]
    ELSE parts[1] \o sep \o join(Tail(parts), sep)

\* The schedules a task form may submit: five fields, and texts with another
\* number of fields or with surrounding whitespace.
ScheduleTexts ==
    { join(<<mi, h, dom, mon, dow>>, sep) :
          mi \in MinuteTexts, h \in HourTexts, dom \in DomTexts, mon \in MonthTexts,
          dow \in DowTexts, sep \in Separators }
    \cup
    { <<>>,
      <<" ", "\t", " ">>,
      <<"0", " ", "0", " ", "*", " ", "*">>,
      <<"0", " ", "0", " ", "*", " ", "*", " ", "*", " ", "*">>,
      <<" ", "0", " ", " ", "9", " ", "1", " ", "*", " ", "1", " ">>,
      <<"0", " ", "9", " ", "1", " ", "*", " ", "1", "\t">>,
      <<"*">> }

DefaultSchedule == <<"*", " ", "*", " ", "*", " ", "*", " ", "*">>

InitParse ==
    /\ InitRoute
    /\ IdleExtra
    /\ schedule \in ScheduleTexts
    /\ cron = Unparsed
    /\ normalizedSchedule = NotNormalized
    /\ IdleScan

\* validateCron(expression) / isCronExpressionValid
validateCron ==
    /\ cron.status = "none"
    /\ cron' = parseCronExpression(schedule)
    /\ UNCHANGED <<schedule, normalizedSchedule, scanVars, routeVars, extraVars>>

\* normalizeTask: schedule = normalizeCronExpression(task.schedule || '* * * * *')
normalizeTask ==
    /\ ~normalizedSchedule.set
    /\ normalizedSchedule' =
           [set |-> TRUE,
            text |-> normalizeCronExpression(
                         IF schedule = <<>> THEN DefaultSchedule ELSE schedule)]
    /\ UNCHANGED <<schedule, cron, scanVars, routeVars, extraVars>>

\* updateTask: the schedule the store holds is submitted again and the record
\* that comes back is normalized again.
updateTask ==
    /\ normalizedSchedule.set
    /\ schedule # normalizedSchedule.text
    /\ schedule' = normalizedSchedule.text
    /\ cron' = Unparsed
    /\ normalizedSchedule' = NotNormalized
    /\ UNCHANGED <<scanVars, routeVars, extraVars>>

NextParse ==
    \/ validateCron
    \/ normalizeTask
    \/ updateTask

SpecParse == InitParse /\ [][NextParse]_vars

(***************************************************************************)
(* Properties of cron parsing and normalization                             *)
(***************************************************************************)
\* The bounds and aliases of the five fields, in the order they are written.
FieldLow == <<0, 0, 1, 1, 0>>
FieldHigh == <<59, 23, 31, 12, 6>>
FieldAliases(k) == IF k = 4 THEN MONTH_ALIASES ELSE IF k = 5 THEN WEEK_ALIASES ELSE NoAliases

ParsedField(k) ==
    CASE k = 1 -> cron.minutes [] k = 2 -> cron.hours [] k = 3 -> cron.daysOfMonth
      [] k = 4 -> cron.months [] k = 5 -> cron.daysOfWeek

\* The comma-separated items of a field, and the parts of an item.
WrittenItems(fieldText) == {item \in Range(split(fieldText, ",")) : item # <<>>}
WrittenRange(item) == split(item, "/")[1]
WrittenStep(item) == IF Len(split(item, "/")) > 1 THEN split(item, "/")[2] ELSE <<>>

NearestBound(v, k) ==
    IF v < FieldLow[k] THEN FieldLow[k] ELSE IF v > FieldHigh[k] THEN FieldHigh[k] ELSE v

\* The value an endpoint stands for in field k: its alias or number, 7 read as
\* 0 in day-of-week, brought to the nearest bound of the field.
Endpoint(text, k) == NearestBound(parseAlias(text, FieldAliases(k), k = 5).value, k)

StepsPositive(fieldText) ==
    \A item \in WrittenItems(fieldText) :
        WrittenStep(item) # <<>> =>
            ~Number(WrittenStep(item)).nan /\ Number(WrittenStep(item)).value > 0

RangesAscending(fieldText, k) ==
    \A item \in WrittenItems(fieldText) :
        (includes(WrittenRange(item), "-") /\ WrittenRange(item) # <<"*">>) =>
            LET ends == split(WrittenRange(item), "-")
            IN  Endpoint(ends[1], k) <= Endpoint(ends[2], k)

IsPlainNumber(text) == text # <<>> /\ \A i \in 1..Len(text) : text[i] \in DigitChars

SevenTexts ==
    { <<"7">>,
      <<"1", ",", "7">>,
      <<"5", "-", "7">>,
      <<"5", "-", "7", "/", "2">> }

\* C9: in the day-of-week field the value 7 is accepted and read as 0 (Sunday)
\* as a single value, as a list item and as an endpoint of an a-b or a-b/step
\* range: an expression whose other fields are valid is accepted and Sunday
\* belongs to its day-of-week set.
C9_SevenIsSunday ==
    LET fields == WhitespaceFields(schedule)
    IN  (/\ cron.status # "none"
         /\ Len(fields) = 5
         /\ fields[5] \in SevenTexts
         /\ isCronExpressionValid(join(<<fields[1], fields[2], fields[3], fields[4], <<"*">>>>,
                                       <<" ">>)))
            => (cron.status = "ok" /\ 0 \in cron.daysOfWeek.values)

\* A text is normalized when it has no whitespace at either end and its only
\* whitespace is single spaces.
IsNormalized(text) ==
    /\ \A i \in 1..Len(text) : text[i] # "\t"
    /\ text # <<>> => (text[1] # " " /\ text[Len(text)] # " ")
    /\ \A i \in 1..(Len(text) - 1) : ~(text[i] = " " /\ text[i + 1] = " ")

\* C10: normalizeCronExpression is idempotent (its result is normalized, has
\* the fields of its argument, and it returns a normalized text unchanged); the
\* source of a parse result is the normalized expression; the source of the
\* parse of a normalized expression is that expression.
C10_NormalizeRoundTrip ==
    /\ (normalizedSchedule.set /\ schedule # <<>>) =>
          /\ IsNormalized(normalizedSchedule.text)
          /\ WhitespaceFields(normalizedSchedule.text) = WhitespaceFields(schedule)
          /\ IsNormalized(schedule) => normalizedSchedule.text = schedule
          /\ normalizeCronExpression(normalizedSchedule.text) = normalizedSchedule.text
    /\ (cron.status = "ok" /\ normalizedSchedule.set) => cron.source = normalizedSchedule.text
    /\ (cron.status = "ok" /\ IsNormalized(schedule)) => cron.source = schedule

C10_Witness ==
    /\ normalizedSchedule.set
    /\ cron.status = "ok"
    /\ \E i \in 1..(Len(schedule) - 2) :
          schedule[i] = " " /\ schedule[i + 1] = " " /\ schedule[i + 2] = " "
    /\ cron.source = normalizedSchedule.text
    /\ cron.source # schedule

(***************************************************************************)
(* Writes into one parent folder: create folder, upload, copy, move (home   *)
(* view) and the folder dialog of the tasks view.  A request is taken to    *)
(* add its entry to the parent at once.                                     *)
(***************************************************************************)
MaxBatch == 2
MaxSameName == 3

WriteCommands == {"create_folder", "upload_file", "upload_folder", "copy_file", "move_file"}

Batches == UNION {[1..len -> Names] : len \in 1..MaxBatch}

LiveNames == {n \in Names : remoteNames[n] > 0}

\* getEntriesForParent: the listing on display when the parent is the current
\* folder, a fresh list_folder_entries otherwise.
getEntriesForParent == IF nameOp.current THEN rawEntries ELSE LiveNames

InitNames ==
    /\ InitRoute
    /\ IdleParse
    /\ IdleScan
    /\ IdleListing
    /\ IdlePool
    /\ IdleTasks
    /\ IdleTransfers
    /\ IdleRemove
    /\ IdleReorder
    /\ IdleRename
    /\ IdleKey
    /\ IdleForm
    /\ IdleMove
    /\ IdleLoad
    /\ IdleTrigger
    /\ IdleMount
    /\ IdleBusy
    /\ IdleSearch
    /\ IdlePicker
    /\ IdleFileRename
    /\ remoteNames \in [Names -> {0, 1}]
    /\ rawEntries = {}
    /\ nameOp = IdleNameOp

\* A handler reaches its loop over the picked paths / selected entries with a
\* parent token; when the parent is the folder on display, its listing was
\* loaded when the folder was opened.
BeginWrites(cmd, queue, current) ==
    /\ nameOp.pc = "idle"
    /\ cmd = "create_folder" => Len(queue) = 1
    /\ nameOp' = [pc |-> "check", cmd |-> cmd, queue |-> queue, current |-> current]
    /\ rawEntries' = IF current THEN LiveNames ELSE {}
    /\ UNCHANGED <<remoteNames, nonNameVars>>

\* ensureUniqueName(parentToken, name)
ensureUniqueName ==
    /\ nameOp.pc = "check"
    /\ nameOp' = [nameOp EXCEPT !.pc = IF Head(nameOp.queue) \in getEntriesForParent
                                       THEN "alert" ELSE "invoke"]
    /\ UNCHANGED <<remoteNames, rawEntries, nonNameVars>>

AfterItem ==
    IF nameOp.cmd = "create_folder" /\ nameOp.pc = "alert" THEN IdleNameOp
    ELSE [nameOp EXCEPT !.queue = Tail(nameOp.queue),
                        !.pc = IF Len(nameOp.queue) > 1 THEN "check" ELSE "refresh"]

\* showAlert('同一目录下文件名必须唯一'); continue (create folder: the error ends the handler)
NameConflictAlert ==
    /\ nameOp.pc = "alert"
    /\ nameOp' = AfterItem
    /\ UNCHANGED <<remoteNames, rawEntries, nonNameVars>>

\* invoke(cmd, {parent_token, name})
InvokeWrite ==
    /\ nameOp.pc = "invoke"
    /\ remoteNames[Head(nameOp.queue)] < MaxSameName
    /\ remoteNames' = [remoteNames EXCEPT ![Head(nameOp.queue)] = @ + 1]
    /\ nameOp' = AfterItem
    /\ UNCHANGED <<rawEntries, nonNameVars>>

\* refresh() after the loop
RefreshListing ==
    /\ nameOp.pc = "refresh"
    /\ rawEntries' = IF nameOp.current THEN LiveNames ELSE rawEntries
    /\ nameOp' = IdleNameOp
    /\ UNCHANGED <<remoteNames, nonNameVars>>

\* Tasks view folder dialog: createRemoteFolder(parentToken, name)
TasksCreateFolder(name) ==
    /\ nameOp.pc = "idle"
    /\ remoteNames[name] < MaxSameName
    /\ remoteNames' = [remoteNames EXCEPT ![name] = @ + 1]
    /\ UNCHANGED <<rawEntries, nameOp, nonNameVars>>

NextNames ==
    \/ \E cmd \in WriteCommands, queue \in Batches, current \in BOOLEAN :
          BeginWrites(cmd, queue, current)
    \/ ensureUniqueName
    \/ NameConflictAlert
    \/ InvokeWrite
    \/ RefreshListing
    \/ \E name \in Names : TasksCreateFolder(name)

SpecNames == InitNames /\ [][NextNames]_vars

\* C11: every create_folder, upload_file, upload_folder, copy_file and
\* move_file request is preceded by a test that the parent holds no live entry
\* of that name, and a conflict sends no request; hence no parent folder ever
\* holds two live entries with the same name.
C11_UniqueNames ==
    /\ \A n \in Names : remoteNames[n] <= 1
    /\ nameOp.pc = "invoke" => Head(nameOp.queue) \notin LiveNames

(***************************************************************************)
(* Aggregated root listing, search and destination picker of the home view  *)
(***************************************************************************)
EntriesPerTenant == 2

DriveEntry(id, k) ==
    [tenant_id |-> id, token |-> k, type |-> IF k = 1 THEN "folder" ELSE "file"]

isFolderEntry(entry) == entry.type = "folder"

\* Root content of one tenant, as list_root_entries reports it.
rootEntries(id) == [k \in 1..EntriesPerTenant |-> DriveEntry(id, k)]

\* Answer of list_root_entries {aggregate: true}: one key per active tenant,
\* keys in ascending registry order.
AggregateResponse ==
    LET active == SelectSeq(SortByOrder(tenants), LAMBDA t : t.active)
    IN  [i \in 1..Len(active) |-> [id |-> active[i].id, list |-> rootEntries(active[i].id)]]

RECURSIVE InsertById(_, _)
InsertById(sorted, e) ==
    IF sorted = <<>> THEN <<e>>
    ELSE IF \E i \in 1..Len(tenants) : \E j \in 1..Len(tenants) :
              /\ tenants[i].id = Head(sorted).id /\ tenants[j].id = e.id /\ i <= j
         THEN <<Head(sorted)>> \o InsertById(Tail(sorted), e)
         ELSE <<e>> \o sorted

fetchAggregatedRootMap_storeOrder(allowedIds) ==
    LET RECURSIVE sortAll(_)
        sortAll(m) == IF m = <<>> THEN <<>>
                      ELSE InsertById(sortAll(SubSeq(m, 1, Len(m) - 1)), m[Len(m)])
        kept == IF allowedIds # {}
                THEN SelectSeq(AggregateResponse, LAMBDA e : e.id \in allowedIds)
                ELSE AggregateResponse
    IN  sortAll(kept)

\* allowedIds = {} stands for both `undefined` and an empty array.
fetchAggregatedRootMap(allowedIds) ==
    IF allowedIds # {}
    THEN SelectSeq(AggregateResponse, LAMBDA e : e.id \in allowedIds)
    ELSE AggregateResponse

\* for (const [tenantId, list] of Object.entries(entriesMap)) list.forEach(push)
RECURSIVE flattened(_)
flattened(entriesMap) ==
    IF entriesMap = <<>> THEN <<>>
    ELSE Head(entriesMap).list \o flattened(Tail(entriesMap))

getAllowedTenantIds == selectedGroupTenantIds

ListingRegistries ==
    { <<Tenant("B", order["B"], active["B"], "read_write", 100000, 10000),
        Tenant("C", order["C"], active["C"], "read_only", 100000, 10000),
        Tenant("A", order["A"], active["A"], "read_write", 100000, 10000)>> :
        order \in {f \in [TenantIds -> 1..3] : \A a, b \in TenantIds : a # b => f[a] # f[b]},
        active \in [TenantIds -> BOOLEAN] }

ListingGroups ==
    { <<>>,
      <<Group("g1", {"A", "B"})>>,
      <<Group("g1", {}), Group("g2", {"C"})>>,
      <<Group("g1", {"A", "B", "C"}), Group("g2", {"C"})>> }

\* Stores after fetchTenants / fetchGroups; activeGroupId as uiStore restored
\* it from localStorage or as the user selected it before the group was edited.
InitListing ==
    /\ tenants \in ListingRegistries
    /\ groups \in ListingGroups
    /\ activeGroupId \in {""} \cup {g.id : g \in Range(groups)}
    /\ currentFolderToken = NoToken
    /\ loadPending = FALSE
    /\ tenantRootCache = {}
    /\ op = IdleOp
    /\ alert = "none"
    /\ edits = 0
    /\ IdleParse
    /\ IdleScan
    /\ IdleNames
    /\ IdleListing
    /\ IdlePool
    /\ IdleTasks
    /\ IdleTransfers
    /\ IdleRemove
    /\ IdleReorder
    /\ IdleRename
    /\ IdleKey
    /\ IdleForm
    /\ IdleMove
    /\ IdleLoad
    /\ IdleTrigger
    /\ IdleMount
    /\ IdleBusy
    /\ IdleSearch
    /\ IdlePicker
    /\ IdleFileRename

\* loadRoot(null): loadAggregatedView, fetchAggregatedRootMap, applyAggregatedEntries
loadAggregatedView ==
    /\ "listing" \notin shown
    /\ LET targetIds == getAllowedTenantIds
       IN  entries' = IF targetIds = {} THEN <<>>
                      ELSE flattened(fetchAggregatedRootMap(targetIds))
    /\ shown' = shown \cup {"listing"}
    /\ UNCHANGED <<tenants, groups, activeGroupId, globalResults, destinationItems,
                   nonListVars>>

\* runSearch(term) with a term every entry name contains; root level of each tenant
runSearch ==
    /\ "search" \notin shown
    /\ globalResults' = UNION {Range(rootEntries(availableTenants[i].id)) :
                                  i \in 1..Len(availableTenants)}
    /\ shown' = shown \cup {"search"}
    /\ UNCHANGED <<tenants, groups, activeGroupId, entries, destinationItems,
                   nonListVars>>

loadAggregatedRootEntries(allowedIds) ==
    SelectSeq(flattened(fetchAggregatedRootMap(allowedIds)), isFolderEntry)

\* loadDestinationEntries(null): root level of the move/copy destination dialog
loadDestinationEntries ==
    /\ "picker" \notin shown
    /\ destinationItems' = loadAggregatedRootEntries(getAllowedTenantIds)
    /\ shown' = shown \cup {"picker"}
    /\ UNCHANGED <<tenants, groups, activeGroupId, entries, globalResults,
                   nonListVars>>

clearSearchState ==
    /\ "search" \in shown
    /\ globalResults' = {}
    /\ shown' = shown \ {"search"}
    /\ UNCHANGED <<tenants, groups, activeGroupId, entries, destinationItems,
                   nonListVars>>

\* The destination dialog is closed; the next open loads its items again.
cancelDestination ==
    /\ "picker" \in shown
    /\ destinationItems' = <<>>
    /\ shown' = shown \ {"picker"}
    /\ UNCHANGED <<tenants, groups, activeGroupId, entries, globalResults,
                   nonListVars>>

NextListing ==
    \/ loadAggregatedView
    \/ runSearch
    \/ loadDestinationEntries
    \/ clearSearchState
    \/ cancelDestination

SpecListing == InitListing /\ [][NextListing]_vars

orderOf(id) == (CHOOSE t \in Range(tenants) : t.id = id).order

ownersShown ==
    {entries[i].tenant_id : i \in 1..Len(entries)}
    \cup {e.tenant_id : e \in globalResults}
    \cup {destinationItems[i].tenant_id : i \in 1..Len(destinationItems)}

\* C14: while a group is selected, the aggregated root listing, the search
\* results and the destination picker hold entries of member tenants of that
\* group only, whatever its membership (an empty group shows nothing).
C14_GroupScoped ==
    groupFilterActive => ownersShown \subseteq currentGroup.tenantIds

\* C26: with no group selected (the universe), the candidates of write-target
\* selection and the owners of the aggregated root listing are all the active
\* tenants of the registry, members of some group or not.
C26_UniverseIsEveryActiveTenant ==
    ~groupFilterActive =>
        LET activeIds == {allActiveTenants[i].id : i \in 1..Len(allActiveTenants)}
        IN  /\ {availableTenants[i].id : i \in 1..Len(availableTenants)} = activeIds
            /\ "listing" \in shown
                  => {entries[i].tenant_id : i \in 1..Len(entries)} = activeIds

(***************************************************************************)
(* runWithLimit: the worker pool behind the per-tenant search requests      *)
(***************************************************************************)
MaxFactories == 7

SearchLimit == 5

Minimum(a, b) == IF a <= b THEN a ELSE b

workerCount_perFactory(count, bound) == count

\* Array.from({ length: Math.min(limit, factories.length) }, worker)
workerCount(count, bound) == Minimum(bound, count)

InitPool ==
    /\ InitRoute
    /\ IdleParse
    /\ IdleScan
    /\ IdleNames
    /\ IdleListing
    /\ IdlePool
    /\ IdleTasks
    /\ IdleTransfers
    /\ IdleRemove
    /\ IdleReorder
    /\ IdleRename
    /\ IdleKey
    /\ IdleForm
    /\ IdleMove
    /\ IdleLoad
    /\ IdleTrigger
    /\ IdleMount
    /\ IdleBusy
    /\ IdleSearch
    /\ IdlePicker
    /\ IdleFileRename

\* runWithLimit(factories, 5): every worker is called in turn and runs up to
\* its first await, having taken one factory (cursor++) and called it.
\* Factories are numbered 0 .. count - 1.
runWithLimit(count) ==
    /\ pool.pc = "idle"
    /\ LET started == workerCount(count, SearchLimit)
       IN  pool' = [pc |-> IF started = 0 THEN "settled" ELSE "running",
                    factories |-> count, cursor |-> started,
                    running |-> 0..(started - 1), workers |-> started,
                    results |-> {}, rejected |-> FALSE]
    /\ UNCHANGED nonPoolVars

\* The promise of factory `current` resolves: its worker stores the value and
\* takes the next factory, or returns when none is left.
FactoryResolves(current) ==
    /\ pool.pc = "running"
    /\ current \in pool.running
    /\ LET more == pool.cursor < pool.factories
           left == IF more THEN pool.workers ELSE pool.workers - 1
       IN  pool' = [pool EXCEPT
                      !.results = @ \cup {current},
                      !.running = IF more THEN (@ \ {current}) \cup {pool.cursor}
                                  ELSE @ \ {current},
                      !.cursor = IF more THEN @ + 1 ELSE @,
                      !.workers = left,
                      !.pc = IF left = 0 THEN "settled" ELSE "running"]
    /\ UNCHANGED nonPoolVars

\* The promise of factory `current` rejects: its worker ends with the error,
\* Promise.all rejects, the other workers go on.
FactoryRejects(current) ==
    /\ pool.pc = "running"
    /\ current \in pool.running
    /\ pool' = [pool EXCEPT
                  !.running = @ \ {current},
                  !.workers = @ - 1,
                  !.rejected = TRUE,
                  !.pc = IF pool.workers = 1 THEN "settled" ELSE "running"]
    /\ UNCHANGED nonPoolVars

\* Every worker has ended; the next search may start.
PoolSettled ==
    /\ pool.pc = "settled"
    /\ pool' = IdlePoolState
    /\ UNCHANGED nonPoolVars

NextPool ==
    \/ \E count \in 0..MaxFactories : runWithLimit(count)
    \/ \E current \in 0..(MaxFactories - 1) : FactoryResolves(current)
    \/ \E current \in 0..(MaxFactories - 1) : FactoryRejects(current)
    \/ PoolSettled

SpecPool == InitPool /\ [][NextPool]_vars

\* C13: a runWithLimit(factories, 5) call never has more than 5 factories in
\* flight, for any number of factories and any order of completion; each
\* factory is started at most once and only factories below the cursor run.
C13_AtMostFiveInFlight ==
    /\ Cardinality(pool.running) <= 5
    /\ Cardinality(pool.running) <= pool.workers
    /\ pool.running \subseteq 0..(pool.cursor - 1)
    /\ pool.running \cap pool.results = {}
    /\ pool.cursor <= pool.factories

C13_Witness ==
    /\ pool.factories > 5
    /\ Cardinality(pool.running) = 5
    /\ pool.cursor = pool.factories
    /\ pool.results # {}
    /\ 0 \in pool.running

(***************************************************************************)
(* Run-now control of the sync tasks                                        *)
(***************************************************************************)
MaxTriggers == 2

TaskStatuses == {"idle", "scheduled", "running", "success", "failed"}

\* taskStore.initialize has fetched the tasks: the store shows the backend's
\* statuses (a task may be running, started by its schedule).
InitTasks ==
    /\ InitRoute
    /\ IdleParse
    /\ IdleScan
    /\ IdleNames
    /\ IdleListing
    /\ IdlePool
    /\ IdleTransfers
    /\ IdleRemove
    /\ IdleReorder
    /\ IdleRename
    /\ IdleKey
    /\ IdleForm
    /\ IdleMove
    /\ IdleLoad
    /\ IdleTrigger
    /\ IdleMount
    /\ IdleBusy
    /\ IdleSearch
    /\ IdlePicker
    /\ IdleFileRename
    /\ engineStatus \in [TaskIds -> TaskStatuses]
    /\ tasks = engineStatus
    /\ triggerRequests = [id \in TaskIds |-> 0]

\* queueTask(task) -> taskStore.triggerTask(id), up to the invoke
triggerTask(id) ==
    /\ triggerRequests[id] < MaxTriggers
    /\ tasks' = [tasks EXCEPT ![id] = "running"]
    /\ triggerRequests' = [triggerRequests EXCEPT ![id] = @ + 1]
    /\ UNCHANGED <<engineStatus, nonTaskVars>>

\* The backend serves trigger_sync_task and the run starts.
TriggerServed(id) ==
    /\ triggerRequests[id] > 0
    /\ triggerRequests' = [triggerRequests EXCEPT ![id] = @ - 1]
    /\ engineStatus' = [engineStatus EXCEPT ![id] = "running"]
    /\ UNCHANGED <<tasks, nonTaskVars>>

\* A run ends in the backend.
RunEnds(id, status) ==
    /\ engineStatus[id] = "running"
    /\ engineStatus' = [engineStatus EXCEPT ![id] = status]
    /\ UNCHANGED <<tasks, triggerRequests, nonTaskVars>>

\* fetchTasks: list_sync_tasks replaces the store's list
fetchTasks ==
    /\ tasks' = engineStatus
    /\ UNCHANGED <<triggerRequests, engineStatus, nonTaskVars>>

NextTasks ==
    \/ \E id \in TaskIds : triggerTask(id)
    \/ \E id \in TaskIds : TriggerServed(id)
    \/ \E id \in TaskIds, status \in {"success", "failed"} : RunEnds(id, status)
    \/ fetchTasks

SpecTasks == InitTasks /\ [][NextTasks]_vars

\* C15: a sync task whose last status is 'running' is never re-entered: no
\* trigger_sync_task request is issued for a task while the store shows it
\* as running.
C15_NoTriggerWhileRunning ==
    [][\A id \in TaskIds :
          triggerRequests'[id] > triggerRequests[id] => tasks[id] # "running"]_vars

(***************************************************************************)
(* Transfer store, transfer view controls and the engine's event stream     *)
(***************************************************************************)
MaxClock == 5
MaxEvents == 2

TransferRecord(status, at) == [status |-> status, updated_at |-> at]

isFinished(task) == task.status = "success" \/ task.status = "failed"

\* unlisten is set: the listener of 'transfer://event' is registered
listening == initPc = "done"

\* The engine's records as list_transfer_tasks reports them.
list_transfer_tasks ==
    [id \in TransferIds |->
        IF engineTasks[id].status = "deleted" THEN NoRecord ELSE engineTasks[id]]

published(records, ids) ==
    LET order == SelectSeq(<<"u1", "u2">>, LAMBDA id : id \in ids)
    IN  [i \in 1..Len(order) |->
            [id |-> order[i], status |-> records[order[i]].status,
             updated_at |-> records[order[i]].updated_at]]

\* The engine persists a new status for the records `ids` and publishes one
\* event per record; an event published while nobody listens is lost.
Persist(ids, status) ==
    IF ids = {} THEN UNCHANGED <<engineTasks, clock, events>>
    ELSE /\ clock < MaxClock
         /\ Len(events) + Cardinality(ids) <= MaxEvents
         /\ clock' = clock + 1
         /\ LET records == [id \in TransferIds |->
                               IF id \in ids THEN TransferRecord(status, clock + 1)
                               ELSE engineTasks[id]]
            IN  /\ engineTasks' = records
                /\ events' = IF listening THEN events \o published(records, ids)
                             ELSE events

Remove(ids) ==
    /\ engineTasks' = [id \in TransferIds |->
                          IF id \in ids THEN TransferRecord("deleted", engineTasks[id].updated_at)
                          ELSE engineTasks[id]]
    /\ UNCHANGED <<clock, events>>

engineIn(ids, statuses) == {id \in ids : engineTasks[id].status \in statuses}

Command(control, cmd, id) ==
    [control |-> control, cmd |-> cmd, task_id |-> id, status |-> transferTasks[id].status]

InitTransfers ==
    /\ InitRoute
    /\ IdleParse
    /\ IdleScan
    /\ IdleNames
    /\ IdleListing
    /\ IdlePool
    /\ IdleTasks
    /\ IdleTransfers
    /\ IdleRemove
    /\ IdleReorder
    /\ IdleRename
    /\ IdleKey
    /\ IdleForm
    /\ IdleMove
    /\ IdleLoad
    /\ IdleTrigger
    /\ IdleMount
    /\ IdleBusy
    /\ IdleSearch
    /\ IdlePicker
    /\ IdleFileRename

\* An upload or download is submitted (by a write handler or a sync run).
EnqueueTransfer(id) ==
    /\ engineTasks[id].status = "absent"
    /\ Persist({id}, "pending")
    /\ UNCHANGED <<transferTasks, fetchState, initPc, issued, nonTransferVars>>

EngineRuns(id) ==
    /\ engineTasks[id].status = "pending"
    /\ Persist({id}, "running")
    /\ UNCHANGED <<transferTasks, fetchState, initPc, issued, nonTransferVars>>

EngineEnds(id, status) ==
    /\ engineTasks[id].status = "running"
    /\ Persist({id}, status)
    /\ UNCHANGED <<transferTasks, fetchState, initPc, issued, nonTransferVars>>

\* initialize, up to the list_transfer_tasks call of fetch
initialize ==
    /\ initPc = "start"
    /\ fetchState.pc = "idle"
    /\ initPc' = "fetching"
    /\ fetchState' = [pc |-> "inflight", items |-> list_transfer_tasks]
    /\ UNCHANGED <<transferTasks, engineTasks, clock, events, issued, nonTransferVars>>

\* fetch: the answer of list_transfer_tasks arrives, this.tasks = items
fetch ==
    /\ fetchState.pc = "inflight"
    /\ transferTasks' = fetchState.items
    /\ fetchState' = NoFetch
    /\ initPc' = IF initPc = "fetching" THEN "listen" ELSE initPc
    /\ UNCHANGED <<engineTasks, clock, events, issued, nonTransferVars>>

\* initialize: this.unlisten = await listen(...); this.initialized = true
listen ==
    /\ initPc = "listen"
    /\ initPc' = "done"
    /\ UNCHANGED <<transferTasks, engineTasks, clock, events, fetchState, issued,
                   nonTransferVars>>

\* The listener runs upsert(event.payload).
upsert ==
    /\ events # <<>>
    /\ transferTasks' = [transferTasks EXCEPT ![Head(events).id] =
                            TransferRecord(Head(events).status, Head(events).updated_at)]
    /\ events' = Tail(events)
    /\ UNCHANGED <<engineTasks, clock, fetchState, initPc, issued, nonTransferVars>>

\* Row button shown when task.status === 'running'
pauseTask(id) ==
    /\ initPc = "done"
    /\ transferTasks[id].status = "running"
    /\ issued' = {Command("pause", "pause_active_transfer", id)}
    /\ Persist(engineIn({id}, {"running"}), "paused")
    /\ UNCHANGED <<transferTasks, fetchState, initPc, nonTransferVars>>

\* Row button shown when task.status === 'paused'
resumeTask(id) ==
    /\ initPc = "done"
    /\ transferTasks[id].status = "paused"
    /\ issued' = {Command("resume", "resume_transfer_task", id)}
    /\ Persist(engineIn({id}, {"paused"}), "running")
    /\ UNCHANGED <<transferTasks, fetchState, initPc, nonTransferVars>>

\* Row button shown when task.status === 'failed'
restartTask(id) ==
    /\ initPc = "done"
    /\ transferTasks[id].status = "failed"
    /\ issued' = {Command("restart", "resume_transfer_task", id)}
    /\ Persist(engineIn({id}, {"paused"}), "running")
    /\ UNCHANGED <<transferTasks, fetchState, initPc, nonTransferVars>>

\* Row button shown when task.status is running, paused or pending
cancelTask(id) ==
    /\ initPc = "done"
    /\ transferTasks[id].status \in {"running", "paused", "pending"}
    /\ issued' = {Command("cancel", "cancel_transfer_task", id)}
    /\ Persist(engineIn({id}, {"running", "paused", "pending"}), "failed")
    /\ UNCHANGED <<transferTasks, fetchState, initPc, nonTransferVars>>

\* Row button shown otherwise; delete_transfer_task, then fetch()
deleteTask(id) ==
    /\ initPc = "done"
    /\ fetchState.pc = "idle"
    /\ transferTasks[id].status \in {"success", "failed"}
    /\ issued' = {Command("delete", "delete_transfer_task", id)}
    /\ Remove(engineIn({id}, {"success", "failed"}))
    /\ fetchState' = [pc |-> "inflight",
                      items |-> [list_transfer_tasks EXCEPT ![id] =
                                    IF engineTasks[id].status \in {"success", "failed"}
                                    THEN NoRecord ELSE @]]
    /\ UNCHANGED <<transferTasks, initPc, nonTransferVars>>

displayedTasks == {id \in TransferIds : transferTasks[id].status \in {"pending", "running", "paused"}}

\* operateTargets: the selected rows of the tab, or all of its rows
operateTargets == SUBSET displayedTasks \ {{}}

pauseBulk(ids) ==
    /\ initPc = "done"
    /\ ids \in operateTargets
    /\ issued' = {Command("pauseBulk", "pause_active_transfer", id) : id \in ids}
    /\ Persist(engineIn(ids, {"running"}), "paused")
    /\ UNCHANGED <<transferTasks, fetchState, initPc, nonTransferVars>>

resumeBulk(ids) ==
    /\ initPc = "done"
    /\ ids \in operateTargets
    /\ issued' = {Command("resumeBulk", "resume_transfer_task", id) : id \in ids}
    /\ Persist(engineIn(ids, {"paused"}), "running")
    /\ UNCHANGED <<transferTasks, fetchState, initPc, nonTransferVars>>

cancelBulk(ids) ==
    /\ initPc = "done"
    /\ ids \in operateTargets
    /\ issued' = {Command("cancelBulk", "cancel_transfer_task", id) : id \in ids}
    /\ Persist(engineIn(ids, {"running", "paused", "pending"}), "failed")
    /\ UNCHANGED <<transferTasks, fetchState, initPc, nonTransferVars>>

\* clearFinishedRecords: clear_transfer_history {mode: 'finished'}, then fetch()
clearFinished ==
    /\ initPc = "done"
    /\ fetchState.pc = "idle"
    /\ \E id \in TransferIds : isFinished(transferTasks[id])
    /\ issued' = {}
    /\ Remove(engineIn(TransferIds, {"success", "failed"}))
    /\ fetchState' = [pc |-> "inflight",
                      items |-> [id \in TransferIds |->
                                    IF isFinished(engineTasks[id]) THEN NoRecord
                                    ELSE list_transfer_tasks[id]]]
    /\ UNCHANGED <<transferTasks, initPc, nonTransferVars>>

NextTransfers ==
    \/ \E id \in TransferIds : EnqueueTransfer(id)
    \/ \E id \in TransferIds : EngineRuns(id)
    \/ \E id \in TransferIds, status \in {"success", "failed"} : EngineEnds(id, status)
    \/ initialize
    \/ fetch
    \/ listen
    \/ upsert
    \/ \E id \in TransferIds : pauseTask(id)
    \/ \E id \in TransferIds : resumeTask(id)
    \/ \E id \in TransferIds : restartTask(id)
    \/ \E id \in TransferIds : cancelTask(id)
    \/ \E id \in TransferIds : deleteTask(id)
    \/ \E ids \in SUBSET TransferIds : pauseBulk(ids)
    \/ \E ids \in SUBSET TransferIds : resumeBulk(ids)
    \/ \E ids \in SUBSET TransferIds : cancelBulk(ids)
    \/ clearFinished

SpecTransfers == InitTransfers /\ [][NextTransfers]_vars

\* C16: restarting a failed transfer makes a new pending record with a fresh
\* id; the restart control does not ask the engine to continue the failed
\* record under its old id.
C16_RestartUsesFreshRecord ==
    \A c \in issued :
        c.control = "restart" =>
            ~(c.cmd = "resume_transfer_task" /\ c.status = "failed")

\* C17: a pause command is sent only for a transfer shown as running, a
\* resume command only for one shown as paused, and no pause, resume or
\* cancel command for one shown as success or failed; row buttons and bulk
\* actions alike.
C17_ControlsFollowStateMachine ==
    \A c \in issued :
        /\ c.cmd = "pause_active_transfer" => c.status = "running"
        /\ c.cmd = "resume_transfer_task" => c.status = "paused"
        /\ c.cmd \in {"pause_active_transfer", "resume_transfer_task", "cancel_transfer_task"}
              => c.status \notin {"success", "failed"}

\* C18: the terminal event of a transfer is never dropped: once the store is
\* initialized and nothing is on its way to it (no event, no snapshot answer),
\* every transfer the engine holds as success or failed is held with that
\* status by the store.
C18_TerminalNotDropped ==
    (initPc = "done" /\ events = <<>> /\ fetchState.pc = "idle") =>
        \A id \in TransferIds :
            isFinished(engineTasks[id]) => transferTasks[id].status = engineTasks[id].status

\* C19: the record the store holds for a transfer only moves forward: it is
\* never replaced by one with an older updated_at, and a transfer shown as
\* success or failed never goes back to a non-terminal status.
C19_StoreMovesForward ==
    [][\A id \in TransferIds :
          (transferTasks[id].status # "absent" /\ transferTasks'[id].status # "absent") =>
              /\ transferTasks'[id].updated_at >= transferTasks[id].updated_at
              /\ isFinished(transferTasks[id]) => isFinished(transferTasks'[id])]_vars

(***************************************************************************)
(* Removal of a tenant: backend registry and the two client stores          *)
(***************************************************************************)
\* Stores after fetchTenants / fetchGroups: the client holds what the backend
\* holds.
InitRemove ==
    /\ tenants \in ListingRegistries
    /\ groups \in ListingGroups
    /\ registry = tenants
    /\ registryGroups = groups
    /\ removePc = "idle"
    /\ activeGroupId = ""
    /\ currentFolderToken = NoToken
    /\ loadPending = FALSE
    /\ tenantRootCache = {}
    /\ op = IdleOp
    /\ alert = "none"
    /\ edits = 0
    /\ IdleParse
    /\ IdleScan
    /\ IdleNames
    /\ IdleListing
    /\ IdlePool
    /\ IdleTasks
    /\ IdleTransfers
    /\ IdleReorder
    /\ IdleRename
    /\ IdleKey
    /\ IdleForm
    /\ IdleMove
    /\ IdleLoad
    /\ IdleTrigger
    /\ IdleMount
    /\ IdleBusy
    /\ IdleSearch
    /\ IdlePicker
    /\ IdleFileRename

\* Backend: the tenant leaves the registry and every group in one step.
remove_tenant(id) ==
    /\ registry' = SelectSeq(registry, LAMBDA t : t.id # id)
    /\ registryGroups' = [i \in 1..Len(registryGroups) |->
                             Group(registryGroups[i].id, registryGroups[i].tenantIds \ {id})]

\* removeTenant(id), up to the answer of remove_tenant
removeTenant(id) ==
    /\ removePc = "idle"
    /\ \E i \in 1..Len(tenants) : tenants[i].id = id
    /\ remove_tenant(id)
    /\ removePc' = "fetchTenants"
    /\ UNCHANGED <<tenants, groups, nonRemoveVars>>

\* removeTenant: await this.fetchTenants()
RemoveFetchTenants ==
    /\ removePc = "fetchTenants"
    /\ tenants' = registry
    /\ removePc' = "fetchGroups"
    /\ UNCHANGED <<groups, registry, registryGroups, nonRemoveVars>>

\* removeTenant: await groupStore.fetchGroups()
RemoveFetchGroups ==
    /\ removePc = "fetchGroups"
    /\ groups' = registryGroups
    /\ removePc' = "idle"
    /\ UNCHANGED <<tenants, registry, registryGroups, nonRemoveVars>>

\* list_tenants or list_groups rejects: removeTenant ends with the error.
RemoveRefreshFails ==
    /\ removePc \in {"fetchTenants", "fetchGroups"}
    /\ removePc' = "idle"
    /\ UNCHANGED <<tenants, groups, registry, registryGroups, nonRemoveVars>>

NextRemove ==
    \/ \E id \in TenantIds : removeTenant(id)
    \/ RemoveFetchTenants
    \/ RemoveFetchGroups
    \/ RemoveRefreshFails

SpecRemove == InitRemove /\ [][NextRemove]_vars

\* C20: no dangling group membership in the client stores: in every state,
\* also while removeTenant is in progress or after one of its refreshes
\* failed, every id in a group's tenantIds is the id of a tenant in the
\* tenant list.
C20_NoDanglingMembership ==
    \A i \in 1..Len(groups) :
        groups[i].tenantIds \subseteq {tenants[j].id : j \in 1..Len(tenants)}

(***************************************************************************)
(* Drag reorder of the tenant table                                         *)
(***************************************************************************)
MaxReorderCalls == 2

ReorderIds == TenantIds

ReorderOrders == 1..4

\* Position of the record with this id in a list (0 when absent).
findIndex(list, id) ==
    IF \E i \in 1..Len(list) : list[i].id = id
    THEN CHOOSE i \in 1..Len(list) : list[i].id = id
    ELSE 0

\* list.splice(from, 1)
removeAt(list, from) == SubSeq(list, 1, from - 1) \o SubSeq(list, from + 1, Len(list))

\* list.splice(at, 0, moved), positions counted from 1
insertAt(list, at, moved) == SubSeq(list, 1, at - 1) \o <<moved>> \o SubSeq(list, at, Len(list))

orderedTenants == SortByOrder(tenants)

\* applyReorder with the target looked up before the moved row is taken out
applyReorder_targetBeforeRemoval(sourceId, targetId, placeBefore) ==
    LET list == orderedTenants
        from == findIndex(list, sourceId)
        at == findIndex(list, targetId)
        rest == removeAt(list, from)
        insertIndex == IF placeBefore THEN at ELSE at + 1
        clamped == IF insertIndex > Len(rest) + 1 THEN Len(rest) + 1 ELSE insertIndex
        moved == insertAt(rest, clamped, list[from])
    IN  [i \in 1..Len(moved) |-> [tenant_id |-> moved[i].id, order |-> i]]

\* applyReorder: the payload of tenantStore.reorder (<<>> when it returns early)
applyReorder(sourceId, targetId, placeBefore) ==
    LET list == orderedTenants
        from == findIndex(list, sourceId)
        rest == removeAt(list, from)
        at == findIndex(rest, targetId)
        insertIndex == IF placeBefore THEN at ELSE at + 1
        clamped == IF insertIndex > Len(rest) + 1 THEN Len(rest) + 1 ELSE insertIndex
        moved == insertAt(rest, clamped, list[from])
    IN  IF sourceId = targetId \/ from = 0 \/ at = 0 THEN <<>>
        ELSE [i \in 1..Len(moved) |-> [tenant_id |-> moved[i].id, order |-> i]]

\* tenantStore.reorder after the invoke: orderMap.get(tenant.id) ?? tenant.order, sort
reorderTenants(items) ==
    SortByOrder([k \in 1..Len(tenants) |->
        IF \E i \in 1..Len(items) : items[i].tenant_id = tenants[k].id
        THEN [tenants[k] EXCEPT !.order =
                 items[CHOOSE i \in 1..Len(items) : items[i].tenant_id = tenants[k].id].order]
        ELSE tenants[k]])

\* list_tenants answer: three tenants, orders unique but not always 1..n
\* (a tenant was removed earlier), array order as the backend sent it.
ReorderRegistries ==
    { <<Tenant("B", order["B"], TRUE, "read_write", 100000, 10000),
        Tenant("C", order["C"], FALSE, "read_only", 100000, 10000),
        Tenant("A", order["A"], TRUE, "read_write", 100000, 10000)>> :
        order \in {f \in [ReorderIds -> ReorderOrders] :
                      \A a, b \in ReorderIds : a # b => f[a] # f[b]} }

InitReorder ==
    /\ tenants \in ReorderRegistries
    /\ groups = <<>>
    /\ activeGroupId = ""
    /\ currentFolderToken = NoToken
    /\ loadPending = FALSE
    /\ tenantRootCache = {}
    /\ op = IdleOp
    /\ alert = "none"
    /\ edits = 0
    /\ IdleParse
    /\ IdleScan
    /\ IdleNames
    /\ IdleListing
    /\ IdlePool
    /\ IdleTasks
    /\ IdleTransfers
    /\ IdleRemove
    /\ IdleReorder
    /\ IdleRename
    /\ IdleKey
    /\ IdleForm
    /\ IdleMove
    /\ IdleLoad
    /\ IdleTrigger
    /\ IdleMount
    /\ IdleBusy
    /\ IdleSearch
    /\ IdlePicker
    /\ IdleFileRename

idsOf(list) == [i \in 1..Len(list) |-> list[i].id]

\* finishReorder -> applyReorder -> tenantStore.reorder, up to the invoke
DragReorder(sourceId, targetId, placeBefore) ==
    /\ Len(reorderState.calls) < MaxReorderCalls
    /\ applyReorder(sourceId, targetId, placeBefore) # <<>>
    /\ reorderState' = [reorderState EXCEPT !.calls = Append(@,
           [items |-> applyReorder(sourceId, targetId, placeBefore),
            sourceId |-> sourceId, targetId |-> targetId, placeBefore |-> placeBefore,
            shown |-> idsOf(orderedTenants)])]
    /\ UNCHANGED nonReorderVars

\* reorder_tenants answers for one of the calls in flight: the store is updated
ReorderApplied(k) ==
    /\ k \in 1..Len(reorderState.calls)
    /\ tenants' = reorderTenants(reorderState.calls[k].items)
    /\ reorderState' = [calls |-> removeAt(reorderState.calls, k),
                        last |-> <<reorderState.calls[k]>>]
    /\ UNCHANGED nonReorderTenantVars

\* reorder_tenants rejects: reorder throws before it touches the store
ReorderRejected(k) ==
    /\ k \in 1..Len(reorderState.calls)
    /\ reorderState' = [reorderState EXCEPT !.calls = removeAt(@, k)]
    /\ UNCHANGED nonReorderVars

NextReorder ==
    \/ \E sourceId, targetId \in ReorderIds, placeBefore \in BOOLEAN :
          DragReorder(sourceId, targetId, placeBefore)
    \/ \E k \in 1..MaxReorderCalls : ReorderApplied(k)
    \/ \E k \in 1..MaxReorderCalls : ReorderRejected(k)

SpecReorder == InitReorder /\ [][NextReorder]_vars

positionOf(id) == findIndex(tenants, id)

withoutId(ids, id) == SelectSeq(ids, LAMBDA x : x # id)

\* C21: after a drag reorder has been applied, the order values of the
\* tenants in the store are pairwise distinct and form 1..n (the array being
\* sorted by them), the moved tenant sits immediately before or after the
\* drop target as requested, and the other tenants keep the relative order
\* they had in the table the drag was made on.
C21_ReorderKeepsTotalOrder ==
    reorderState.last # <<>> =>
        LET call == reorderState.last[1]
        IN  /\ \A i \in 1..Len(tenants) : tenants[i].order = i
            /\ positionOf(call.sourceId) =
                  IF call.placeBefore THEN positionOf(call.targetId) - 1
                  ELSE positionOf(call.targetId) + 1
            /\ withoutId(idsOf(tenants), call.sourceId) = withoutId(call.shown, call.sourceId)

C21_Witness ==
    /\ reorderState.last # <<>>
    /\ reorderState.calls # <<>>
    /\ reorderState.last[1].sourceId = "A"
    /\ reorderState.last[1].targetId = "C"
    /\ ~reorderState.last[1].placeBefore
    /\ idsOf(tenants) = <<"B", "C", "A">>
    /\ reorderState.last[1].shown = <<"A", "B", "C">>

(***************************************************************************)
(* renameFolder: create the replacement, move the children, delete the old  *)
(***************************************************************************)
ChildTokens == <<"c1", "c2", "c3", "c4">>

\* What the folder to rename holds when the handler starts.
FolderContents == SUBSET Range(ChildTokens)

InitRename ==
    /\ InitRoute
    /\ IdleParse
    /\ IdleScan
    /\ IdleNames
    /\ IdleListing
    /\ IdlePool
    /\ IdleTasks
    /\ IdleTransfers
    /\ IdleRemove
    /\ IdleReorder
    /\ IdleKey
    /\ IdleForm
    /\ IdleMove
    /\ IdleLoad
    /\ IdleTrigger
    /\ IdleMount
    /\ IdleBusy
    /\ IdleSearch
    /\ IdlePicker
    /\ IdleFileRename
    /\ \E content \in FolderContents :
          renameOp = [pc |-> "idle", children |-> <<>>, rest |-> <<>>, log |-> <<>>,
                      content |-> content, newContent |-> {}, newExists |-> FALSE,
                      oldExists |-> TRUE]

Request(cmd, token, result) == [cmd |-> cmd, token |-> token, result |-> result]

\* A rejected invoke leaves renameFolder through withBusy's catch.
afterRejection_goesOn(next) == next

afterRejection(next) == "failed"

\* renameFolder: children = await fetchFolderEntries(entry.token)
renameFolder(ok) ==
    /\ renameOp.pc = "idle"
    /\ renameOp.oldExists
    /\ renameOp' = [renameOp EXCEPT
          !.pc = IF ok THEN "create" ELSE afterRejection("create"),
          !.children = IF ok THEN SelectSeq(ChildTokens, LAMBDA c : c \in renameOp.content)
                       ELSE <<>>,
          !.rest = IF ok THEN SelectSeq(ChildTokens, LAMBDA c : c \in renameOp.content)
                   ELSE <<>>,
          !.log = <<>>,
          !.newContent = {},
          !.newExists = FALSE]
    /\ UNCHANGED nonRenameVars

\* newFolder = await createRemoteFolder(parentToken, newName): ensureUniqueName
\* throws on a name conflict, create_folder may be rejected
createRemoteFolder(result) ==
    /\ renameOp.pc = "create"
    /\ renameOp' = [renameOp EXCEPT
          !.pc = IF result = "ok" THEN (IF renameOp.rest = <<>> THEN "delete" ELSE "move")
                 ELSE afterRejection(IF renameOp.rest = <<>> THEN "delete" ELSE "move"),
          !.log = IF result = "conflict" THEN @
                  ELSE Append(@, Request("create_folder", "new", result)),
          !.newExists = result = "ok"]
    /\ UNCHANGED nonRenameVars

\* for (const child of children) await invoke('move_file', ...)
MoveChild(ok) ==
    /\ renameOp.pc = "move"
    /\ LET child == Head(renameOp.rest)
           next == IF Len(renameOp.rest) = 1 THEN "delete" ELSE "move"
       IN  renameOp' = [renameOp EXCEPT
              !.pc = IF ok THEN next ELSE afterRejection(next),
              !.rest = Tail(@),
              !.log = Append(@, Request("move_file", child, IF ok THEN "ok" ELSE "rejected")),
              !.content = IF ok THEN @ \ {child} ELSE @,
              !.newContent = IF ok /\ renameOp.newExists THEN @ \cup {child} ELSE @]
    /\ UNCHANGED nonRenameVars

\* await invoke('delete_file', {token: entry.token, type: 'folder'})
DeleteOriginal(ok) ==
    /\ renameOp.pc = "delete"
    /\ renameOp' = [renameOp EXCEPT
          !.pc = IF ok THEN "done" ELSE "failed",
          !.log = Append(@, Request("delete_file", "old", IF ok THEN "ok" ELSE "rejected")),
          !.oldExists = ~ok,
          !.content = IF ok THEN {} ELSE @]
    /\ UNCHANGED nonRenameVars

\* withBusy ends (alert shown on failure); the handler can run again, under
\* another new name, on a folder that still exists.
RenameEnds ==
    /\ renameOp.pc \in {"done", "failed"}
    /\ renameOp.oldExists
    /\ renameOp' = [renameOp EXCEPT !.pc = "idle"]
    /\ UNCHANGED nonRenameVars

NextRename ==
    \/ \E ok \in BOOLEAN : renameFolder(ok)
    \/ \E result \in {"ok", "conflict", "rejected"} : createRemoteFolder(result)
    \/ \E ok \in BOOLEAN : MoveChild(ok)
    \/ \E ok \in BOOLEAN : DeleteOriginal(ok)
    \/ RenameEnds

SpecRename == InitRename /\ [][NextRename]_vars

requestsOf(cmd) == {i \in 1..Len(renameOp.log) : renameOp.log[i].cmd = cmd}

\* C22: in a folder rename the replacement folder is created before any
\* child is moved into it, the original folder is deleted only after every
\* child has been moved out of it, and after a failed creation or a failed
\* move no delete of the original is sent.
C22_RenameOrdering ==
    /\ \A i \in requestsOf("move_file") :
          /\ i > 1
          /\ renameOp.log[1] = Request("create_folder", "new", "ok")
    /\ \A i \in requestsOf("delete_file") :
          /\ i = Len(renameOp.log)
          /\ renameOp.log[1] = Request("create_folder", "new", "ok")
          /\ \A j \in 1..(i - 1) : renameOp.log[j].result = "ok"
          /\ {renameOp.log[j].token : j \in requestsOf("move_file")} = Range(renameOp.children)
          /\ renameOp.log[i].result = "ok" => renameOp.newContent = Range(renameOp.children)
    /\ (\E i \in 1..Len(renameOp.log) :
            renameOp.log[i].cmd # "delete_file" /\ renameOp.log[i].result # "ok")
           => renameOp.oldExists /\ requestsOf("delete_file") = {}
    /\ renameOp.newContent # {} => renameOp.newExists

C22_Witness ==
    /\ renameOp.pc = "done"
    /\ ~renameOp.oldExists
    /\ Len(renameOp.children) = 3
    /\ Len(renameOp.log) = 5

(***************************************************************************)
(* Security store: ensureServerKey, regenerateKey, and withApiKey on top    *)
(***************************************************************************)
MaxRuns == 2

KeyCallers == {"a", "b"}

\* Keys are numbered: 0 is the empty string, ExistingKey a key the backend
\* already holds, randomKey() yields the next unused number.
ExistingKey == 1

IdleCaller == [pc |-> "idle", key |-> 0, got |-> 0, on |-> "null", calls |-> 0, runs |-> 0,
               first |-> "none", outcome |-> "none", asked |-> FALSE]

InitKey ==
    /\ InitRoute
    /\ IdleParse
    /\ IdleScan
    /\ IdleNames
    /\ IdleListing
    /\ IdlePool
    /\ IdleTasks
    /\ IdleTransfers
    /\ IdleRemove
    /\ IdleReorder
    /\ IdleRename
    /\ IdleForm
    /\ IdleMove
    /\ IdleLoad
    /\ IdleTrigger
    /\ IdleMount
    /\ IdleBusy
    /\ IdleSearch
    /\ IdlePicker
    /\ IdleFileRename
    /\ \E local \in {0, ExistingKey}, server \in {0, ExistingKey} :
          /\ local # 0 => server = local
          /\ keyState = [apiKey |-> local, local |-> local, server |-> server,
                         generating |-> "null", iife |-> "none", iifeKey |-> 0,
                         regen |-> [c \in KeyCallers |-> "none"],
                         gets |-> 0, updates |-> 0, fresh |-> ExistingKey + 1,
                         callers |-> [c \in KeyCallers |-> IdleCaller]]

\* setApiKey(key): this.apiKey and localStorage together
setApiKey(st, key) == [st EXCEPT !.apiKey = key, !.local = key]

\* if (!this.generating): the guard of the lookup in ensureServerKey
startsLookup_always(st) == TRUE

startsLookup(st) == st.generating = "null"

\* What the promise named p has settled to: "pending", "rejected", or "ok".
settled(st, p) ==
    IF p = "e" THEN (IF st.iife \in {"get", "update"} THEN "pending" ELSE st.iife)
    ELSE st.regen[p]

\* message.includes('缺少 API Key') || message.includes('API Key')
mentionsApiKey_any(result) == TRUE

mentionsApiKey(result) == result = "API Key"

\* this.generating after an awaited request was rejected: the assignments of
\* null come after the await and are skipped
markerAfterFailure(st) == st.generating

\* withApiKey / withAdminKey: let apiKey = await securityStore.ensureServerKey()
ensureServerKey(c) ==
    LET me == keyState.callers[c]
    IN  /\ me.pc = "idle"
        /\ me.runs < MaxRuns
        /\ IF keyState.apiKey # 0
           THEN keyState' = [keyState EXCEPT
                   !.callers[c] = [IdleCaller EXCEPT !.pc = "handler", !.key = keyState.apiKey,
                                                     !.got = keyState.apiKey,
                                                     !.calls = 1, !.runs = me.runs + 1]]
           ELSE IF startsLookup(keyState)
           THEN keyState' = [keyState EXCEPT
                   !.generating = "e",
                   !.iife = "get",
                   !.gets = @ + 1,
                   !.callers[c] = [IdleCaller EXCEPT !.pc = "ensure", !.on = "e",
                                                     !.runs = me.runs + 1, !.asked = TRUE]]
           ELSE keyState' = [keyState EXCEPT
                   !.callers[c] = [IdleCaller EXCEPT !.pc = "ensure", !.on = keyState.generating,
                                                     !.runs = me.runs + 1]]
        /\ UNCHANGED nonKeyVars

\* const existing = await invoke('get_api_key')
GetAnswered(ok) ==
    /\ keyState.iife = "get"
    /\ IF ~ok
       THEN keyState' = [keyState EXCEPT !.iife = "rejected",
                                         !.generating = markerAfterFailure(keyState)]
       ELSE IF keyState.server # 0
       THEN keyState' = [setApiKey(keyState, keyState.server) EXCEPT
               !.iife = "ok", !.iifeKey = keyState.server, !.generating = "null"]
       ELSE keyState' = [keyState EXCEPT !.iife = "update", !.iifeKey = keyState.fresh,
                                         !.fresh = @ + 1, !.updates = @ + 1]
    /\ UNCHANGED nonKeyVars

\* await invoke('update_api_key', {currentKey: null, newKey})
UpdateAnswered(ok) ==
    /\ keyState.iife = "update"
    /\ IF ok
       THEN keyState' = [setApiKey(keyState, keyState.iifeKey) EXCEPT
               !.iife = "ok", !.server = keyState.iifeKey, !.generating = "null"]
       ELSE keyState' = [keyState EXCEPT !.iife = "rejected",
                                         !.generating = markerAfterFailure(keyState)]
    /\ UNCHANGED nonKeyVars

\* return this.generating: the caller resumes once the promise has settled
EnsureSettles(c) ==
    LET me == keyState.callers[c]
    IN  /\ me.pc = "ensure"
        /\ settled(keyState, me.on) # "pending"
        /\ keyState' = [keyState EXCEPT !.callers[c] =
              IF settled(keyState, me.on) = "ok"
              THEN LET key == IF me.on = "e" THEN keyState.iifeKey ELSE keyState.apiKey
                   IN  [me EXCEPT !.pc = "handler", !.calls = 1, !.key = key, !.got = key]
              ELSE [me EXCEPT !.pc = "idle", !.outcome = "ensure failed"]]
        /\ UNCHANGED nonKeyVars

\* the first part of regenerateKey, up to its await: update_api_key is sent
\* and this.generating is the new promise
regenerateKey(st, c) ==
    [st EXCEPT !.regen[c] = "pending", !.generating = c, !.fresh = @ + 1,
               !.callers[c].key = st.fresh]

\* return await handler(apiKey), first or second time
HandlerAnswers(c, result) ==
    LET me == keyState.callers[c]
    IN  /\ me.pc = "handler"
        /\ keyState' =
              IF result = "ok"
              THEN [keyState EXCEPT !.callers[c] = [me EXCEPT !.pc = "idle", !.outcome = "ok"]]
              ELSE IF me.calls = 1 /\ mentionsApiKey(result)
              THEN [regenerateKey(keyState, c) EXCEPT
                       !.callers[c].pc = "regenerate", !.callers[c].first = result]
              ELSE [keyState EXCEPT !.callers[c] =
                       [me EXCEPT !.pc = "idle", !.outcome = result,
                                  !.first = IF me.calls = 1 THEN result ELSE @]]
        /\ UNCHANGED nonKeyVars

\* regenerateKey after its await: setApiKey(newKey), this.generating = null;
\* a rejected update_api_key skips both
RegenerateAnswered(c, ok) ==
    LET me == keyState.callers[c]
    IN  /\ me.pc = "regenerate"
        /\ keyState' =
              IF ok
              THEN [setApiKey(keyState, me.key) EXCEPT
                       !.server = me.key, !.regen[c] = "ok", !.generating = "null",
                       !.callers[c].pc = "handler", !.callers[c].calls = 2]
              ELSE [keyState EXCEPT
                       !.regen[c] = "rejected",
                       !.generating = markerAfterFailure(keyState),
                       !.callers[c].pc = "idle", !.callers[c].outcome = "regenerate failed"]
        /\ UNCHANGED nonKeyVars

NextKey ==
    \/ \E c \in KeyCallers : ensureServerKey(c)
    \/ \E ok \in BOOLEAN : GetAnswered(ok)
    \/ \E ok \in BOOLEAN : UpdateAnswered(ok)
    \/ \E c \in KeyCallers : EnsureSettles(c)
    \/ \E c \in KeyCallers, result \in {"ok", "API Key", "other"} : HandlerAnswers(c, result)
    \/ \E c \in KeyCallers, ok \in BOOLEAN : RegenerateAnswered(c, ok)

SpecKey == InitKey /\ [][NextKey]_vars

\* C23: with no key stored, overlapping ensureServerKey calls lead to at most
\* one get_api_key and at most one update_api_key of the bootstrap, every
\* caller that waited for the bootstrap receives the same key, and once it
\* has succeeded the in-memory key equals the key in localStorage and (until
\* a regeneration) the key the backend holds.
C23_KeyGeneratedOnce ==
    /\ keyState.gets <= 1
    /\ keyState.updates <= 1
    /\ \A c \in KeyCallers :
          keyState.callers[c].on = "e" /\ keyState.callers[c].got # 0
              => keyState.callers[c].got = keyState.iifeKey
    /\ keyState.apiKey = keyState.local
    /\ keyState.iife = "ok" => keyState.apiKey # 0
    /\ (keyState.iife = "ok" /\ \A c \in KeyCallers : keyState.regen[c] = "none")
          => keyState.apiKey = keyState.iifeKey /\ keyState.server = keyState.iifeKey

C23_Witness ==
    /\ keyState.gets = 1
    /\ keyState.updates = 1
    /\ keyState.iife = "ok"
    /\ \A c \in KeyCallers :
          /\ keyState.callers[c].on = "e"
          /\ keyState.callers[c].got = keyState.iifeKey
          /\ keyState.callers[c].runs = 1
    /\ keyState.apiKey = keyState.iifeKey

\* C29: a failed key bootstrap does not stick: when get_api_key or
\* update_api_key is rejected, in ensureServerKey or in regenerateKey, the
\* in-flight marker (generating) is cleared.
C29_FailureClearsMarker ==
    /\ keyState.iife = "rejected" => keyState.generating # "e"
    /\ \A c \in KeyCallers :
          keyState.regen[c] = "rejected" => keyState.generating # c

\* C30: withApiKey / withAdminKey invoke the handler at most twice; the
\* second invocation happens only after a first failure whose message
\* mentions the API key and a successful regenerateKey; any other error, a
\* failed regeneration and a failed retry are what the caller gets.
C30_AtMostOneRetry ==
    \A c \in KeyCallers :
        LET me == keyState.callers[c]
        IN  /\ me.calls <= 2
            /\ me.calls = 2 => me.first = "API Key" /\ keyState.regen[c] = "ok"
            /\ me.first = "other" => me.calls = 1 /\ me.pc = "idle" /\ me.outcome = "other"
            /\ me.outcome = "regenerate failed" => me.calls = 1 /\ me.first = "API Key"
            /\ me.outcome = "ensure failed" => me.calls = 0
            /\ me.outcome \in {"API Key", "other"} /\ me.first = "API Key" => me.calls = 2

C30_Witness ==
    \E c \in KeyCallers :
        LET me == keyState.callers[c]
        IN  /\ me.calls = 2
            /\ me.first = "API Key"
            /\ me.pc = "idle"
            /\ me.outcome = "other"

(***************************************************************************)
(* Saving sync tasks: submitForm, createTask, updateTask, toggleTask,       *)
(* duplicateTask                                                            *)
(***************************************************************************)
MaxSaves == 3

NoSchedule == <<"-">>

\* What the schedule input of the task form may hold.
FormSchedules ==
    { <<"*", "/", "7", " ", "*", " ", "*", " ", "*", " ", "*">>,
      <<" ", "0", " ", " ", "9", " ", "1", " ", "*", " ", "1", " ">>,
      <<"*", "/", "0", " ", "*", " ", "*", " ", "*", " ", "*">>,
      <<"0", " ", "0", " ", "*", " ", "*">>,
      <<>> }

\* Schedules of the records list_sync_tasks returned, after normalizeTask; the
\* backend's own checks are not in the source, so a record may carry a
\* schedule the client's parser rejects.
StoredSchedules ==
    { DefaultSchedule,
      <<"x", " ", "*", " ", "*", " ", "*", " ", "*">> }

InitForm ==
    /\ InitRoute
    /\ IdleParse
    /\ IdleScan
    /\ IdleNames
    /\ IdleListing
    /\ IdlePool
    /\ IdleTasks
    /\ IdleTransfers
    /\ IdleRemove
    /\ IdleReorder
    /\ IdleRename
    /\ IdleKey
    /\ IdleMove
    /\ IdleLoad
    /\ IdleTrigger
    /\ IdleMount
    /\ IdleBusy
    /\ IdleSearch
    /\ IdlePicker
    /\ IdleFileRename
    /\ \E stored \in StoredSchedules :
          formState = [tasks |-> <<[id |-> 1, schedule |-> stored, enabled |-> TRUE]>>,
                       requests |-> <<>>, pending |-> <<>>, attempt |-> <<>>]

Attempt(by, outcome) ==
    <<[by |-> by, outcome |-> outcome, before |-> formState.tasks,
       sent |-> Len(formState.requests)]>>

\* if (!taskStore.validateCron(form.schedule.trim())) in submitForm
formAccepts_unchecked(text) == TRUE

formAccepts(text) == isCronExpressionValid(trim(text))

\* createTask up to its await: throws on an invalid schedule, else sends
\* create_sync_task with the mapped payload
createTask(by, text) ==
    IF ~isCronExpressionValid(text)
    THEN [formState EXCEPT !.attempt = Attempt(by, "invalid")]
    ELSE [formState EXCEPT
            !.requests = Append(@, [cmd |-> "create_sync_task", id |-> 0, schedule |-> text]),
            !.pending = <<[cmd |-> "create_sync_task", id |-> 0, schedule |-> text,
                           enabled |-> by # "duplicateTask"]>>,
            !.attempt = Attempt(by, "sent")]

\* updateTask up to its await: sends update_sync_task with the mapped payload
\* (mapToBackendPayload copies the fields the payload has)
taskStoreUpdateTask(by, id, text, enabled) ==
    [formState EXCEPT
        !.requests = Append(@, [cmd |-> "update_sync_task", id |-> id, schedule |-> text]),
        !.pending = <<[cmd |-> "update_sync_task", id |-> id, schedule |-> text,
                       enabled |-> enabled]>>,
        !.attempt = Attempt(by, "sent")]

CanSave == formState.pending = <<>> /\ Len(formState.requests) < MaxSaves

\* submitForm with the other inputs of the form filled in; editing is the id
\* of editingTask or 0
submitForm(text, editing) ==
    /\ CanSave
    /\ formState' =
          IF ~formAccepts(text)
          THEN [formState EXCEPT !.attempt = Attempt("submitForm", "invalid")]
          ELSE IF editing # 0
          THEN taskStoreUpdateTask("submitForm", editing, trim(text), TRUE)
          ELSE createTask("submitForm", trim(text))
    /\ UNCHANGED nonFormVars

\* toggleTask: updateTask(id, { enabled })
toggleTask(id, enabled) ==
    /\ CanSave
    /\ formState' = taskStoreUpdateTask("toggleTask", id, NoSchedule, enabled)
    /\ UNCHANGED nonFormVars

\* duplicateTask: createTask with a copy of the original's fields
duplicateTask(id) ==
    /\ CanSave
    /\ \E i \in 1..Len(formState.tasks) :
          /\ formState.tasks[i].id = id
          /\ formState' = createTask("duplicateTask", formState.tasks[i].schedule)
    /\ UNCHANGED nonFormVars

\* the record create_sync_task / update_sync_task answers with, through
\* normalizeTask(fromBackendTask(record))
savedRecord(req, id, old) ==
    [id |-> id,
     schedule |-> normalizeCronExpression(
                      IF req.schedule = NoSchedule THEN old
                      ELSE IF req.schedule = <<>> THEN DefaultSchedule ELSE req.schedule),
     enabled |-> req.enabled]

\* the awaited invoke settles: the store's list changes only on success
SaveAnswered(ok) ==
    /\ formState.pending # <<>>
    /\ LET req == formState.pending[1]
           by == formState.attempt[1].by
       IN  formState' =
              IF ~ok
              THEN [formState EXCEPT !.pending = <<>>, !.attempt = Attempt(by, "rejected")]
              ELSE IF req.cmd = "create_sync_task"
              THEN [formState EXCEPT
                      !.pending = <<>>,
                      !.tasks = <<savedRecord(req, Len(formState.tasks) + 1, DefaultSchedule)>> \o @,
                      !.attempt[1].outcome = "saved"]
              ELSE [formState EXCEPT
                      !.pending = <<>>,
                      !.tasks = [i \in 1..Len(@) |->
                                    IF @[i].id = req.id THEN savedRecord(req, req.id, @[i].schedule)
                                    ELSE @[i]],
                      !.attempt[1].outcome = "saved"]
    /\ UNCHANGED nonFormVars

NextForm ==
    \/ \E text \in FormSchedules, editing \in 0..MaxSaves :
          /\ editing # 0 => \E i \in 1..Len(formState.tasks) : formState.tasks[i].id = editing
          /\ submitForm(text, editing)
    \/ \E i \in 1..Len(formState.tasks), enabled \in BOOLEAN :
          toggleTask(formState.tasks[i].id, enabled)
    \/ \E i \in 1..Len(formState.tasks) : duplicateTask(formState.tasks[i].id)
    \/ \E ok \in BOOLEAN : SaveAnswered(ok)

SpecForm == InitForm /\ [][NextForm]_vars

\* C24: every create_sync_task and update_sync_task request the client sends
\* that carries a schedule carries one the cron parser accepts, and a save
\* that was refused (by the validation or by the backend) leaves the task
\* store's list as it was and, when refused by the validation, sends nothing.
C24_OnlyValidSchedulesSent ==
    /\ \A i \in 1..Len(formState.requests) :
          formState.requests[i].schedule # NoSchedule
              => isCronExpressionValid(formState.requests[i].schedule)
    /\ \A i \in 1..Len(formState.attempt) :
          LET a == formState.attempt[i]
          IN  /\ a.outcome \in {"invalid", "rejected"} => formState.tasks = a.before
              /\ a.outcome = "invalid" => Len(formState.requests) = a.sent

C24_Witness ==
    /\ Len(formState.requests) = 1
    /\ formState.requests[1].cmd = "update_sync_task"
    /\ formState.requests[1].schedule = <<"0", " ", " ", "9", " ", "1", " ", "*", " ", "1">>
    /\ formState.attempt[1].outcome = "invalid"
    /\ formState.attempt[1].by = "submitForm"
    /\ formState.attempt[1].sent = 1

(***************************************************************************)
(* Stepped wildcards in the day fields                                      *)
(***************************************************************************)
\* Schedules whose day-of-month or day-of-week is written `*/2`, searched
\* from 2025-01-01 00:00:00.
SteppedDayInputs ==
    { [text |-> <<"0", " ", "0", " ", "*", "/", "2", " ", "*", " ", "*">>,
       from |-> 0, until |-> Minutes(4)],
      [text |-> <<"0", " ", "0", " ", "*", " ", "*", " ", "*", "/", "2">>,
       from |-> 0, until |-> Minutes(4)],
      [text |-> <<"0", " ", "0", " ", "3", "1", " ", "2", " ", "*", "/", "2">>,
       from |-> 0, until |-> 0] }

InitSteppedDay ==
    /\ InitRoute
    /\ IdleExtra
    /\ \E input \in SteppedDayInputs :
          /\ schedule = input.text
          /\ fromDate = input.from
          /\ windowEnd = input.until
    /\ cron = Unparsed
    /\ normalizedSchedule = NotNormalized
    /\ cursor = 0
    /\ index = 0
    /\ scanPc = "idle"
    /\ nextRun = NoDate
    /\ fires = 0

SpecSteppedDay == InitSteppedDay /\ [][NextCron]_vars

\* The field is written with a step on the wildcard: `*/n`.
SteppedWildcard(fieldText) ==
    /\ Len(split(fieldText, "/")) = 2
    /\ split(fieldText, "/")[1] = <<"*">>

\* C25: a stepped day field restricts the days: when day-of-month is written
\* `*/n` and day-of-week `*`, every instant computeNextOccurrence returns has
\* its day of the month in the expanded set of the field; the same for a
\* stepped day-of-week with day-of-month `*`.
C25_SteppedDayRestricts ==
    Found =>
        LET fields == WhitespaceFields(schedule)
        IN  /\ (SteppedWildcard(fields[3]) /\ fields[5] = <<"*">>)
                  => getDate(nextRun) \in cron.daysOfMonth.values
            /\ (SteppedWildcard(fields[5]) /\ fields[3] = <<"*">>)
                  => getDay(nextRun) \in cron.daysOfWeek.values

(***************************************************************************)
(* Moving entries: destination dialog, drag and drop, performMove           *)
(***************************************************************************)
MaxMoves == 2

\* The remote trees of two tenants: a root with a folder and a file each, and
\* a folder inside A's folder.  "" is the aggregated root (token null).
MoveEntry(token, tenant, type, parent) ==
    [token |-> token, tenant_id |-> tenant, type |-> type, parent_token |-> parent]

RemoteEntries ==
    { MoveEntry("dA", "A", "folder", "rootA"),
      MoveEntry("fA", "A", "file", "rootA"),
      MoveEntry("dA2", "A", "folder", "dA"),
      MoveEntry("gA", "A", "file", "dA"),
      MoveEntry("dB", "B", "folder", "rootB"),
      MoveEntry("fB", "B", "file", "rootB") }

MoveRoots == {"rootA", "rootB"}

tenantOfToken(token) ==
    IF token \in MoveRoots THEN (IF token = "rootA" THEN "A" ELSE "B")
    ELSE (CHOOSE e \in RemoteEntries : e.token = token).tenant_id

\* rawEntries: explorerStore.entries for the folder shown; at the aggregated
\* root the root entries of every listed tenant
entriesAt(token) ==
    IF token = "" THEN {e \in RemoteEntries : e.parent_token \in MoveRoots}
    ELSE {e \in RemoteEntries : e.parent_token = token}

\* breadcrumbs from the root to the folder shown, as tokens
RECURSIVE crumbsTo(_)
crumbsTo(token) ==
    IF token = "" THEN <<"">>
    ELSE LET parent == (CHOOSE e \in RemoteEntries : e.token = token).parent_token
         IN  crumbsTo(IF parent \in MoveRoots THEN "" ELSE parent) \o <<token>>

MoveLocations == {""} \cup {e.token : e \in {x \in RemoteEntries : x.type = "folder"}}

InitMove ==
    /\ InitRoute
    /\ IdleParse
    /\ IdleScan
    /\ IdleNames
    /\ IdleListing
    /\ IdlePool
    /\ IdleTasks
    /\ IdleTransfers
    /\ IdleRemove
    /\ IdleReorder
    /\ IdleRename
    /\ IdleKey
    /\ IdleForm
    /\ IdleLoad
    /\ IdleTrigger
    /\ IdleMount
    /\ IdleBusy
    /\ IdleSearch
    /\ IdlePicker
    /\ IdleFileRename
    /\ moveState = [location |-> "", targets |-> {}, visible |-> FALSE, stack |-> <<>>,
                    requests |-> <<>>]

\* the guards performMove has before it sends move_file for an entry
skipsEntry(entry, destination) ==
    \/ entry.parent_token = destination
    \/ entry.type = "folder" /\ entry.token = destination

\* performMove(targets, destination): the move_file requests it sends, one per
\* entry that is not skipped and whose name is free in the destination
performMove(st, targets, destination, conflicts) ==
    LET sent == {e \in targets : ~skipsEntry(e, destination) /\ e.token \notin conflicts}
        order == <<"dA", "fA", "dA2", "gA", "dB", "fB">>
        list == SelectSeq(order, LAMBDA t : \E e \in sent : e.token = t)
    IN  [st EXCEPT !.requests = @ \o
            [i \in 1..Len(list) |->
                [cmd |-> "move_file", token |-> list[i], target_parent |-> destination]]]

CanMove == ~moveState.visible /\ Len(moveState.requests) < MaxMoves

\* performLoad(target): another folder, or the aggregated root, is shown
ShowFolder(token) ==
    /\ ~moveState.visible
    /\ token # moveState.location
    /\ token = "" \/ \E e \in entriesAt(moveState.location) : e.token = token
    /\ moveState' = [moveState EXCEPT !.location = token]
    /\ UNCHANGED nonMoveVars

\* handleMove: collectTargets, then openDestinationDialog('move', targets),
\* whose stack starts from the breadcrumbs
handleMove(targets) ==
    /\ CanMove
    /\ targets # {}
    /\ targets \subseteq entriesAt(moveState.location)
    /\ moveState' = [moveState EXCEPT !.targets = targets, !.visible = TRUE,
                                      !.stack = crumbsTo(moveState.location)]
    /\ UNCHANGED nonMoveVars

currentDestinationToken == moveState.stack[Len(moveState.stack)]

isDestinationBlocked(token) ==
    \E e \in moveState.targets : e.type = "folder" /\ e.token = token

\* enterDestinationFolder(folder): a folder of destinationDialog.items
enterDestinationFolder(folder) ==
    /\ moveState.visible
    /\ folder \in entriesAt(currentDestinationToken)
    /\ folder.type = "folder"
    /\ ~isDestinationBlocked(folder.token)
    /\ moveState' = [moveState EXCEPT !.stack = Append(@, folder.token)]
    /\ UNCHANGED nonMoveVars

goDestinationUp ==
    /\ moveState.visible
    /\ Len(moveState.stack) > 1
    /\ moveState' = [moveState EXCEPT !.stack = SubSeq(@, 1, Len(@) - 1)]
    /\ UNCHANGED nonMoveVars

\* confirmDestination resolves the dialog and handleMove goes on to performMove
confirmDestination(conflicts) ==
    /\ moveState.visible
    /\ currentDestinationToken # ""
    /\ ~isDestinationBlocked(currentDestinationToken)
    /\ moveState' = [performMove(moveState, moveState.targets, currentDestinationToken, conflicts)
                        EXCEPT !.visible = FALSE, !.stack = <<>>, !.targets = {}]
    /\ UNCHANGED nonMoveVars

DestinationCancelled ==
    /\ moveState.visible
    /\ moveState' = [moveState EXCEPT !.visible = FALSE, !.stack = <<>>, !.targets = {}]
    /\ UNCHANGED nonMoveVars

\* finalizeDrag(target): the dragged entries are dropped on a folder row
finalizeDrag(dragged, target, conflicts) ==
    /\ CanMove
    /\ dragged # {}
    /\ dragged \subseteq entriesAt(moveState.location)
    /\ target \in entriesAt(moveState.location)
    /\ target.type = "folder"
    /\ target \notin dragged
    /\ moveState' = performMove(moveState, dragged, target.token, conflicts)
    /\ UNCHANGED nonMoveVars

NextMove ==
    \/ \E token \in MoveLocations : ShowFolder(token)
    \/ \E targets \in SUBSET RemoteEntries : handleMove(targets)
    \/ \E folder \in RemoteEntries : enterDestinationFolder(folder)
    \/ goDestinationUp
    \/ \E conflicts \in {{}, {"fA"}} : confirmDestination(conflicts)
    \/ DestinationCancelled
    \/ \E dragged \in SUBSET RemoteEntries, target \in RemoteEntries, conflicts \in {{}, {"fA"}} :
          finalizeDrag(dragged, target, conflicts)

SpecMove == InitMove /\ [][NextMove]_vars

\* C27: no cross-tenant move is attempted: every move_file request names a
\* destination folder of the tenant the moved entry belongs to, whether the
\* destination was chosen in the destination dialog or by drag and drop.
C27_NoCrossTenantMove ==
    \A i \in 1..Len(moveState.requests) :
        tenantOfToken(moveState.requests[i].token)
            = tenantOfToken(moveState.requests[i].target_parent)

(***************************************************************************)
(* Overlapping directory loads: explorerStore.loadRoot / loadFolder and the *)
(* home view's loadAggregatedView                                           *)
(***************************************************************************)
MaxLoads == 3

LoadFolders == {"dA", "dB"}

InitLoad ==
    /\ InitRoute
    /\ IdleParse
    /\ IdleScan
    /\ IdleNames
    /\ IdleListing
    /\ IdlePool
    /\ IdleTasks
    /\ IdleTransfers
    /\ IdleRemove
    /\ IdleReorder
    /\ IdleRename
    /\ IdleKey
    /\ IdleForm
    /\ IdleMove
    /\ IdleTrigger
    /\ IdleMount
    /\ IdleBusy
    /\ IdleSearch
    /\ IdlePicker
    /\ IdleFileRename
    /\ loadState = [activeLoadTicket |-> 0, started |-> 0, inflight |-> {},
                    currentTenantId |-> "", currentFolderToken |-> "",
                    entriesFrom |-> 0, tokenFrom |-> 0, staleApplied |-> FALSE]

\* A load in flight: `id` numbers the loads in the order they were started,
\* `ticket` is the value of ++activeLoadTicket (0 when the load takes none).
Load(id, kind, ticket, target) == [id |-> id, kind |-> kind, ticket |-> ticket, target |-> target]

CanLoad == loadState.started < MaxLoads

\* explorerStore.loadRoot(tenantId) up to the awaited list_root_entries
explorerLoadRoot(tenantId) ==
    /\ CanLoad
    /\ loadState' = [loadState EXCEPT
          !.activeLoadTicket = @ + 1,
          !.started = @ + 1,
          !.inflight = @ \cup {Load(loadState.started + 1, "loadRoot",
                                    loadState.activeLoadTicket + 1, tenantId)}]
    /\ UNCHANGED nonLoadVars

\* explorerStore.loadFolder(folderToken) up to the awaited list_folder_entries
loadFolder(folderToken) ==
    /\ CanLoad
    /\ loadState' = [loadState EXCEPT
          !.activeLoadTicket = @ + 1,
          !.started = @ + 1,
          !.inflight = @ \cup {Load(loadState.started + 1, "loadFolder",
                                    loadState.activeLoadTicket + 1, folderToken)}]
    /\ UNCHANGED nonLoadVars

\* HomeView loadRoot(null) -> loadAggregatedView with allowed tenants, up to
\* the awaited list_root_entries of fetchAggregatedRootMap: no ticket is taken
aggregatedLoad ==
    /\ CanLoad
    /\ loadState' = [loadState EXCEPT
          !.started = @ + 1,
          !.inflight = @ \cup {Load(loadState.started + 1, "aggregated", 0, "")}]
    /\ UNCHANGED nonLoadVars

\* if (ticket !== activeLoadTicket) return, where the load has a ticket
passesTicket(st, l) == l.kind = "aggregated" \/ l.ticket = st.activeLoadTicket

\* the awaited request of load l answers
LoadAnswered(l) ==
    /\ l \in loadState.inflight
    /\ loadState' =
          IF ~passesTicket(loadState, l)
          THEN [loadState EXCEPT !.inflight = @ \ {l}]
          ELSE [loadState EXCEPT
                  !.inflight = @ \ {l},
                  !.currentTenantId = IF l.kind = "loadRoot" THEN l.target
                                      ELSE IF l.kind = "aggregated" THEN "" ELSE @,
                  !.currentFolderToken = IF l.kind = "loadFolder" THEN l.target
                                         ELSE IF l.kind = "aggregated" THEN ""
                                         ELSE "root" \o l.target,
                  !.entriesFrom = l.id,
                  !.tokenFrom = l.id,
                  !.staleApplied = @ \/ l.id < loadState.started]
    /\ UNCHANGED nonLoadVars

\* the awaited request of load l is rejected: the store is left alone
LoadRejected(l) ==
    /\ l \in loadState.inflight
    /\ loadState' = [loadState EXCEPT !.inflight = @ \ {l}]
    /\ UNCHANGED nonLoadVars

NextLoad ==
    \/ \E tenantId \in {"A", "B"} : explorerLoadRoot(tenantId)
    \/ \E folderToken \in LoadFolders : loadFolder(folderToken)
    \/ aggregatedLoad
    \/ \E l \in loadState.inflight : LoadAnswered(l)
    \/ \E l \in loadState.inflight : LoadRejected(l)

SpecLoad == InitLoad /\ [][NextLoad]_vars

\* C28: the last-started directory load wins: a response is applied to the
\* explorer store only if no other load (loadRoot, loadFolder or the home
\* view's aggregated load) was started after the load it answers, and
\* entries and currentFolderToken come from the same response.
C28_LastStartedLoadWins ==
    /\ ~loadState.staleApplied
    /\ loadState.entriesFrom = loadState.tokenFrom

(***************************************************************************)
(* triggerTask: the optimistic 'running' mark and the refresh after it      *)
(***************************************************************************)
MaxSettled == 2

\* lastStatus, lastMessage and lastRunAt of a task record; lastRunAt counts
\* runs, "now" is the client's clock at the click.
RunRecord(status, message, at) == [lastStatus |-> status, lastMessage |-> message, lastRunAt |-> at]

BackendRecords ==
    { RunRecord("idle", "", "never"),
      RunRecord("success", "done", "earlier"),
      RunRecord("failed", "error", "earlier") }

\* this.tasks.map(task => task.id === id ? {...task, lastStatus: 'running', ...} : task)
markRunning(list, id) ==
    [list EXCEPT ![id] = RunRecord("running", "executing", "now")]

InitTrigger ==
    /\ InitRoute
    /\ IdleParse
    /\ IdleScan
    /\ IdleNames
    /\ IdleListing
    /\ IdlePool
    /\ IdleTasks
    /\ IdleTransfers
    /\ IdleRemove
    /\ IdleReorder
    /\ IdleRename
    /\ IdleKey
    /\ IdleForm
    /\ IdleMove
    /\ IdleLoad
    /\ IdleMount
    /\ IdleBusy
    /\ IdleSearch
    /\ IdlePicker
    /\ IdleFileRename
    /\ \E records \in [TaskIds -> BackendRecords] :
          triggerState = [tasks |-> records, backend |-> records, reported |-> records,
                          pc |-> [id \in TaskIds |-> "idle"], settled |-> 0]

\* queueTask(task) -> triggerTask(id) up to the awaited trigger_sync_task
TriggerStarts(id) ==
    /\ triggerState.pc[id] = "idle"
    /\ triggerState.settled < MaxSettled
    /\ triggerState' = [triggerState EXCEPT
          !.tasks = markRunning(@, id),
          !.pc[id] = "trigger"]
    /\ UNCHANGED nonTriggerVars

\* trigger_sync_task answers: on success the backend has started the run and
\* triggerTask goes on to fetchTasks; a rejection leaves triggerTask there
TriggerAnswered(id, ok) ==
    /\ triggerState.pc[id] = "trigger"
    /\ triggerState' =
          IF ok
          THEN [triggerState EXCEPT
                  !.backend[id] = RunRecord("running", "started", "latest"),
                  !.pc[id] = "fetch"]
          ELSE [triggerState EXCEPT !.pc[id] = "idle", !.settled = @ + 1]
    /\ UNCHANGED nonTriggerVars

\* The run ends in the backend.
BackendRunEnds(id, status) ==
    /\ triggerState.backend[id].lastStatus = "running"
    /\ triggerState' = [triggerState EXCEPT
          !.backend[id] = RunRecord(status, "finished", "latest")]
    /\ UNCHANGED nonTriggerVars

\* await this.fetchTasks(): list_sync_tasks answers and replaces the list, or
\* is rejected and the list stays
TriggerFetchAnswered(id, ok) ==
    /\ triggerState.pc[id] = "fetch"
    /\ triggerState' =
          IF ok
          THEN [triggerState EXCEPT
                  !.tasks = triggerState.backend,
                  !.reported = triggerState.backend,
                  !.pc[id] = "idle", !.settled = @ + 1]
          ELSE [triggerState EXCEPT !.pc[id] = "idle", !.settled = @ + 1]
    /\ UNCHANGED nonTriggerVars

NextTrigger ==
    \/ \E id \in TaskIds : TriggerStarts(id)
    \/ \E id \in TaskIds, ok \in BOOLEAN : TriggerAnswered(id, ok)
    \/ \E id \in TaskIds, status \in {"success", "failed"} : BackendRunEnds(id, status)
    \/ \E id \in TaskIds, ok \in BOOLEAN : TriggerFetchAnswered(id, ok)

SpecTrigger == InitTrigger /\ [][NextTrigger]_vars

\* C31: once triggerTask has settled and no other call is outstanding,
\* whether trigger_sync_task succeeded or failed, lastStatus, lastMessage and
\* lastRunAt of every task in the store are the values the backend last
\* reported: the optimistic 'running' mark does not survive a failed trigger.
C31_RunningMarkCleared ==
    (triggerState.settled > 0 /\ \A id \in TaskIds : triggerState.pc[id] = "idle")
        => triggerState.tasks = triggerState.reported

(***************************************************************************)
(* transferStore.initialize called by the application shell and by the      *)
(* transfer view                                                            *)
(***************************************************************************)
MaxMounts == 3
MaxTransferEvents == 2

\* App.vue onMounted and TransferView onMounted
InitializeCallers == {"app", "view"}

InitMount ==
    /\ InitRoute
    /\ IdleParse
    /\ IdleScan
    /\ IdleNames
    /\ IdleListing
    /\ IdlePool
    /\ IdleTasks
    /\ IdleTransfers
    /\ IdleRemove
    /\ IdleReorder
    /\ IdleRename
    /\ IdleKey
    /\ IdleForm
    /\ IdleMove
    /\ IdleLoad
    /\ IdleTrigger
    /\ IdleBusy
    /\ IdleSearch
    /\ IdlePicker
    /\ IdleFileRename
    /\ mountState = [initialized |-> FALSE, listeners |-> 0,
                     pc |-> [c \in InitializeCallers |-> "idle"], mounts |-> 0,
                     applied |-> <<>>]

\* if (this.initialized) return
returnsEarly(st) == st.initialized

\* initialize() up to its first await; the shell mounts once, the view every
\* time it is opened
InitializeCalled(c) ==
    /\ mountState.pc[c] = "idle"
    /\ mountState.mounts < MaxMounts
    /\ mountState' = [mountState EXCEPT
          !.mounts = @ + 1,
          !.pc[c] = IF returnsEarly(mountState) THEN "returned" ELSE "fetch"]
    /\ UNCHANGED nonMountVars

\* await this.fetch(): list_transfer_tasks answers or is rejected
InitializeFetched(c, ok) ==
    /\ mountState.pc[c] = "fetch"
    /\ mountState' = [mountState EXCEPT !.pc[c] = IF ok THEN "listen" ELSE "failed"]
    /\ UNCHANGED nonMountVars

\* this.unlisten = await listen('transfer://event', ...); this.initialized = true
InitializeListens(c) ==
    /\ mountState.pc[c] = "listen"
    /\ mountState' = [mountState EXCEPT
          !.listeners = @ + 1,
          !.initialized = TRUE,
          !.pc[c] = "returned"]
    /\ UNCHANGED nonMountVars

\* the view is closed and may be opened again
ViewUnmounted ==
    /\ mountState.pc["view"] \in {"returned", "failed"}
    /\ mountState' = [mountState EXCEPT !.pc["view"] = "idle"]
    /\ UNCHANGED nonMountVars

\* the engine emits one transfer event: every registered listener runs
\* upsert(event.payload)
TransferEventEmitted ==
    /\ Len(mountState.applied) < MaxTransferEvents
    /\ mountState' = [mountState EXCEPT !.applied = Append(@, mountState.listeners)]
    /\ UNCHANGED nonMountVars

NextMount ==
    \/ \E c \in InitializeCallers : InitializeCalled(c)
    \/ \E c \in InitializeCallers, ok \in BOOLEAN : InitializeFetched(c, ok)
    \/ \E c \in InitializeCallers : InitializeListens(c)
    \/ ViewUnmounted
    \/ TransferEventEmitted

SpecMount == InitMount /\ [][NextMount]_vars

\* C32: however the initialize calls of the application shell and of the
\* transfer view interleave, at most one 'transfer://event' listener is ever
\* registered, so no transfer event is applied to the store more than once.
C32_SingleListener ==
    /\ mountState.listeners <= 1
    /\ \A i \in 1..Len(mountState.applied) : mountState.applied[i] <= 1

(***************************************************************************)
(* withBusy: one file operation of the home view at a time                  *)
(***************************************************************************)
MaxBusyCalls == 4

\* Handlers that wrap their work in withBusy (upload, create folder, delete,
\* rename, move, copy, download).
BusyCallers == {"handleRename", "performMove", "handleDelete"}

InitBusy ==
    /\ InitRoute
    /\ IdleParse
    /\ IdleScan
    /\ IdleNames
    /\ IdleListing
    /\ IdlePool
    /\ IdleTasks
    /\ IdleTransfers
    /\ IdleRemove
    /\ IdleReorder
    /\ IdleRename
    /\ IdleKey
    /\ IdleForm
    /\ IdleMove
    /\ IdleLoad
    /\ IdleTrigger
    /\ IdleMount
    /\ IdleSearch
    /\ IdlePicker
    /\ IdleFileRename
    /\ busyState = [actionBusy |-> FALSE, pc |-> [c \in BusyCallers |-> "idle"],
                    alerts |-> 0, calls |-> 0]

\* if (actionBusy.value) return
refusesTask_never(st) == FALSE

refusesTask(st) == st.actionBusy

\* withBusy(task) up to `await task()`: the test and the assignment run
\* without an await between them
withBusy(c) ==
    /\ busyState.pc[c] = "idle"
    /\ busyState.calls < MaxBusyCalls
    /\ busyState' =
          IF refusesTask(busyState)
          THEN [busyState EXCEPT !.pc[c] = "refused", !.calls = @ + 1]
          ELSE [busyState EXCEPT !.actionBusy = TRUE, !.pc[c] = "task", !.calls = @ + 1]
    /\ UNCHANGED nonBusyVars

\* the task settles: catch shows the alert when it threw, finally resets
\* actionBusy
TaskSettles(c, threw) ==
    /\ busyState.pc[c] = "task"
    /\ busyState' = [busyState EXCEPT
          !.actionBusy = FALSE,
          !.alerts = IF threw THEN @ + 1 ELSE @,
          !.pc[c] = IF threw THEN "threw" ELSE "finished"]
    /\ UNCHANGED nonBusyVars

\* the handler has returned and can be invoked again
HandlerReturns(c) ==
    /\ busyState.pc[c] \in {"refused", "threw", "finished"}
    /\ busyState' = [busyState EXCEPT !.pc[c] = "idle"]
    /\ UNCHANGED nonBusyVars

NextBusy ==
    \/ \E c \in BusyCallers : withBusy(c)
    \/ \E c \in BusyCallers, threw \in BOOLEAN : TaskSettles(c, threw)
    \/ \E c \in BusyCallers : HandlerReturns(c)

SpecBusy == InitBusy /\ [][NextBusy]_vars

runningTasks == {c \in BusyCallers : busyState.pc[c] = "task"}

\* actionBusy is true exactly while a task body runs, and at most one runs.
OneTaskAtATime ==
    /\ Cardinality(runningTasks) <= 1
    /\ busyState.actionBusy <=> runningTasks # {}

\* A call that leaves withBusy's entry is refused exactly when a task runs.
BusyCallRefused ==
    \A c \in BusyCallers :
        (busyState.pc[c] = "idle" /\ busyState'.pc[c] # "idle")
            => (busyState'.pc[c] = "refused" <=> runningTasks # {})

\* C33: withBusy gives mutual exclusion: at most one withBusy task body runs
\* at any time, a withBusy call made while another is running returns
\* without running its task, and actionBusy is true exactly while a task
\* body is running (false again once the task has finished or thrown).
C33_MutualExclusion == []OneTaskAtATime /\ [][BusyCallRefused]_vars

C33_Witness ==
    /\ busyState.pc["performMove"] = "task"
    /\ busyState.pc["handleRename"] = "refused"
    /\ busyState.pc["handleDelete"] = "threw"
    /\ busyState.alerts = 1

(***************************************************************************)
(* runSearch: a search run and what supersedes it                           *)
(***************************************************************************)
MaxSearchRuns == 3

\* Terms typed into the search box (after trim); <<>> is the empty keyword.
SearchTerms == {<<>>, <<"m">>, <<"n">>}

\* The drive one search walks: the root listing of the tenant and the
\* children of its one folder.
RootListing ==
    {[name |-> <<"M", "o">>, type |-> "file"], [name |-> <<"o", "n">>, type |-> "folder"]}
FolderListing ==
    {[name |-> <<"m", "n">>, type |-> "file"], [name |-> <<"s", "o">>, type |-> "file"]}

\* String.prototype.includes
includesText(s, t) ==
    \E i \in 1..(Len(s) - Len(t) + 1) : SubSeq(s, i, i + Len(t) - 1) = t

\* processEntries: the matches of one listing for a run
matchesOf(items, run) ==
    {[name |-> e.name, run |-> run.slot] :
        e \in {x \in items : includesText(toLowerCase(x.name), run.lower)}}

\* if (searchRunId.value !== runId) return
isStale(st, run) == st.searchRunId # run.runId

InitSearch ==
    /\ InitRoute
    /\ IdleParse
    /\ IdleScan
    /\ IdleNames
    /\ IdleListing
    /\ IdlePool
    /\ IdleTasks
    /\ IdleTransfers
    /\ IdleRemove
    /\ IdleReorder
    /\ IdleRename
    /\ IdleKey
    /\ IdleForm
    /\ IdleMove
    /\ IdleLoad
    /\ IdleTrigger
    /\ IdleMount
    /\ IdleBusy
    /\ IdlePicker
    /\ IdleFileRename
    /\ searchState = [searchRunId |-> 0, appliedKeyword |-> <<>>, globalResults |-> {},
                      searching |-> FALSE, runs |-> <<>>, live |-> 0]

\* applySearch -> runSearch(term) up to `await securityStore.ensureServerKey()`.
\* `live` records which run the view is showing: the run this call starts,
\* or none after an empty keyword.
applySearch(term) ==
    /\ Len(searchState.runs) < MaxSearchRuns
    /\ searchState' =
          IF term = <<>>
          THEN [searchState EXCEPT
                  !.appliedKeyword = term, !.globalResults = {},
                  !.searching = FALSE, !.live = 0]
          ELSE [searchState EXCEPT
                  !.appliedKeyword = term, !.globalResults = {},
                  !.searchRunId = @ + 1, !.searching = TRUE,
                  !.runs = Append(@, [slot |-> Len(@) + 1,
                                      runId |-> searchState.searchRunId + 1,
                                      lower |-> toLowerCase(term), pc |-> "key"]),
                  !.live = Len(searchState.runs) + 1]
    /\ UNCHANGED nonSearchVars

\* ensureServerKey settles. It is awaited before the try block: a rejection
\* leaves runSearch without passing through finally. Otherwise the factory
\* of the tenant starts: stale check, then list_root_entries is awaited.
KeyAnswered(r, ok) ==
    /\ r \in 1..Len(searchState.runs)
    /\ searchState.runs[r].pc = "key"
    /\ searchState' =
          IF ~ok \/ isStale(searchState, searchState.runs[r])
          THEN [searchState EXCEPT !.runs[r].pc = "done"]
          ELSE [searchState EXCEPT !.runs[r].pc = "root"]
    /\ UNCHANGED nonSearchVars

\* list_root_entries settles: stale check, processEntries(root entries), the
\* folder goes to the queue and list_folder_entries is awaited; a rejection
\* runs catch and finally.
RootAnswered(r, ok) ==
    /\ r \in 1..Len(searchState.runs)
    /\ searchState.runs[r].pc = "root"
    /\ LET run == searchState.runs[r]
       IN  searchState' =
              IF isStale(searchState, run)
              THEN [searchState EXCEPT !.runs[r].pc = "done"]
              ELSE IF ~ok
              THEN [searchState EXCEPT !.runs[r].pc = "done", !.searching = FALSE]
              ELSE [searchState EXCEPT
                      !.globalResults = @ \cup matchesOf(RootListing, run),
                      !.runs[r].pc = "folder"]
    /\ UNCHANGED nonSearchVars

\* list_folder_entries settles: processEntries(children) with its stale
\* check, the queue is empty, and finally resets `searching` for a run that
\* is not stale.
FolderAnswered(r, ok) ==
    /\ r \in 1..Len(searchState.runs)
    /\ searchState.runs[r].pc = "folder"
    /\ LET run == searchState.runs[r]
       IN  searchState' =
              IF isStale(searchState, run)
              THEN [searchState EXCEPT !.runs[r].pc = "done"]
              ELSE IF ~ok
              THEN [searchState EXCEPT !.runs[r].pc = "done", !.searching = FALSE]
              ELSE [searchState EXCEPT
                      !.globalResults = @ \cup matchesOf(FolderListing, run),
                      !.searching = FALSE,
                      !.runs[r].pc = "done"]
    /\ UNCHANGED nonSearchVars

\* cancelSearch()
cancelSearch ==
    /\ searchState.appliedKeyword # <<>> \/ searchState.globalResults # {}
    /\ searchState' = [searchState EXCEPT
          !.searchRunId = @ + 1, !.appliedKeyword = <<>>, !.globalResults = {},
          !.searching = FALSE, !.live = 0]
    /\ UNCHANGED nonSearchVars

\* openItem(folder) -> clearSearchState()
openItem ==
    /\ searchState' = [searchState EXCEPT
          !.appliedKeyword = <<>>, !.globalResults = {}, !.searching = FALSE,
          !.live = 0]
    /\ searchState' # searchState
    /\ UNCHANGED nonSearchVars

NextSearch ==
    \/ \E term \in SearchTerms : applySearch(term)
    \/ \E r \in 1..MaxSearchRuns, ok \in BOOLEAN : KeyAnswered(r, ok)
    \/ \E r \in 1..MaxSearchRuns, ok \in BOOLEAN : RootAnswered(r, ok)
    \/ \E r \in 1..MaxSearchRuns, ok \in BOOLEAN : FolderAnswered(r, ok)
    \/ cancelSearch
    \/ openItem

SpecSearch == InitSearch /\ [][NextSearch]_vars

\* C34: once a search run has been superseded by a newer run, cancelled, or
\* cleared (empty keyword, or opening a folder), entries it finds are never
\* added to globalResults: globalResults holds only entries found by the run
\* of the currently applied keyword, and they match that keyword.
C34_OnlyCurrentRunResults ==
    \A e \in searchState.globalResults :
        /\ e.run = searchState.live
        /\ searchState.appliedKeyword # <<>>
        /\ includesText(toLowerCase(e.name), toLowerCase(searchState.appliedKeyword))

(***************************************************************************)
(* Field sets of accepted cron expressions                                  *)
(***************************************************************************)
\* Fields written with commas only, or with a trailing comma.
CommaTexts == {<<",">>, <<",", ",">>, <<"5", ",">>}

FieldSetTexts ==
    { join(<<mi, h, dom, mon, dow>>, sep) :
          mi \in MinuteTexts \cup CommaTexts, h \in HourTexts \cup CommaTexts,
          dom \in DomTexts \cup CommaTexts, mon \in {<<"*">>, <<"1", "3">>},
          dow \in {<<"*">>, <<"7">>, <<",">>}, sep \in {<<" ">>, <<" ", " ">>} }

InitFieldSets ==
    /\ InitRoute
    /\ IdleExtra
    /\ schedule \in FieldSetTexts
    /\ cron = Unparsed
    /\ normalizedSchedule = NotNormalized
    /\ IdleScan

SpecFieldSets == InitFieldSets /\ [][NextParse]_vars

\* C35: every expression accepted by isCronExpressionValid has five non-empty
\* field sets, each contained in its field's bounds (minute 0-59, hour 0-23,
\* day-of-month 1-31, month 1-12, day-of-week 0-6): no accepted expression
\* has a field that can never match.
C35_AcceptedFieldsCanMatch ==
    cron.status = "ok" =>
        \A k \in 1..5 :
            /\ ParsedField(k).values # {}
            /\ ParsedField(k).values \subseteq FieldLow[k]..FieldHigh[k]

(***************************************************************************)
(* Task form: group and remote folder selection                             *)
(***************************************************************************)
MaxPickerLoads == 2
MaxPickerDepth == 3

\* groupOptions: the tenantIds of each group
PickerGroups == [g1 |-> {"A"}, g2 |-> {"B"}]

\* The folders of the drive: one root folder per tenant, and the children
\* of a folder.
RootFolderOf == [A |-> "fa", B |-> "fb"]
ChildFolders(token) == IF token = "fa" THEN {"fa1"} ELSE {}

NoNode == [token |-> "", tenantId |-> ""]

\* loadAggregatedRootEntries(allowedIds)
rootFolderItems(allowedIds) ==
    {[token |-> RootFolderOf[t], tenantId |-> t] : t \in allowedIds}

\* listFolderEntries(current.token), each entry labelled with the tenant of
\* the stack node
folderItems(node) ==
    {[token |-> c, tenantId |-> node.tenantId] : c \in ChildFolders(node.token)}

currentFolderNode(st) == st.stack[Len(st.stack)]

\* loadFolderEntries up to its await: the request it sends
loadFolderEntries(st, opener) ==
    IF ~st.visible THEN st
    ELSE [st EXCEPT !.loads = @ \cup
              {[node |-> currentFolderNode(st), allowed |-> st.allowed,
                opener |-> opener]}]

\* clearRemoteSelection
clearRemoteSelection(st) == [st EXCEPT !.remote = NoNode]

NoPayload == [sent |-> FALSE, groupId |-> "", tenantId |-> "", remoteFolderToken |-> ""]

InitPicker ==
    /\ InitRoute
    /\ IdleParse
    /\ IdleScan
    /\ IdleNames
    /\ IdleListing
    /\ IdlePool
    /\ IdleTasks
    /\ IdleTransfers
    /\ IdleRemove
    /\ IdleReorder
    /\ IdleRename
    /\ IdleKey
    /\ IdleForm
    /\ IdleMove
    /\ IdleLoad
    /\ IdleTrigger
    /\ IdleMount
    /\ IdleBusy
    /\ IdleSearch
    /\ IdleFileRename
    /\ pickerState = [groupId |-> "g1", remote |-> NoNode,
                      visible |-> FALSE, allowed |-> {}, stack |-> <<>>, items |-> {},
                      resolve |-> FALSE, loads |-> {}, payload |-> NoPayload]

\* openCreateDialog -> resetForm
openCreateDialog ==
    /\ ~pickerState.visible
    /\ pickerState' = clearRemoteSelection([pickerState EXCEPT !.groupId = "g1"])
    /\ pickerState' # pickerState
    /\ UNCHANGED nonPickerVars

\* the group select changes: v-model writes form.groupId, then
\* handleGroupChange -> setGroupId(form.groupId)
handleGroupChange(g) ==
    /\ ~pickerState.visible
    /\ g # pickerState.groupId
    /\ pickerState' = clearRemoteSelection([pickerState EXCEPT !.groupId = g])
    /\ UNCHANGED nonPickerVars

\* handleSelectRemoteFolder -> openFolderDialog up to `await loadFolderEntries()`
openFolderDialog ==
    /\ ~pickerState.visible
    /\ Cardinality(pickerState.loads) < MaxPickerLoads
    /\ pickerState' = loadFolderEntries(
          [pickerState EXCEPT
              !.allowed = PickerGroups[pickerState.groupId],
              !.stack = <<NoNode>>,
              !.visible = TRUE], TRUE)
    /\ UNCHANGED nonPickerVars

\* a request of loadFolderEntries settles: the items are replaced; when it is
\* the load openFolderDialog awaits, the promise is created and its resolver
\* stored
PickerLoadAnswered(l, ok) ==
    /\ l \in pickerState.loads
    /\ pickerState' =
          IF ~ok THEN [pickerState EXCEPT !.loads = @ \ {l}]
          ELSE [pickerState EXCEPT
                  !.loads = @ \ {l},
                  !.items = IF l.node.token = ""
                            THEN rootFolderItems(l.allowed)
                            ELSE folderItems(l.node),
                  !.resolve = IF l.opener THEN TRUE ELSE @]
    /\ UNCHANGED nonPickerVars

\* enterFolder(item)
enterFolder(item) ==
    /\ pickerState.visible
    /\ item \in pickerState.items
    /\ Len(pickerState.stack) < MaxPickerDepth
    /\ Cardinality(pickerState.loads) < MaxPickerLoads
    /\ pickerState' = loadFolderEntries(
          [pickerState EXCEPT !.stack = Append(@, item)], FALSE)
    /\ UNCHANGED nonPickerVars

\* goFolderUp
goFolderUp ==
    /\ pickerState.visible
    /\ Len(pickerState.stack) > 1
    /\ Cardinality(pickerState.loads) < MaxPickerLoads
    /\ pickerState' = loadFolderEntries(
          [pickerState EXCEPT !.stack = SubSeq(@, 1, Len(@) - 1)], FALSE)
    /\ UNCHANGED nonPickerVars

\* closeFolderDialog(selection), and the continuation of
\* handleSelectRemoteFolder when a resolver was stored
closeFolderDialog(st, selection) ==
    [st EXCEPT
        !.visible = FALSE,
        !.resolve = FALSE,
        !.remote = IF st.resolve /\ selection # NoNode THEN selection ELSE @]

\* confirmFolderDialog
confirmFolderDialog ==
    /\ pickerState.visible
    /\ LET node == currentFolderNode(pickerState)
       IN  /\ node.token # "" /\ node.tenantId # ""
           /\ pickerState' = closeFolderDialog(pickerState, node)
    /\ UNCHANGED nonPickerVars

\* the cancel button: closeFolderDialog()
cancelFolderDialog ==
    /\ pickerState.visible
    /\ pickerState' = closeFolderDialog(pickerState, NoNode)
    /\ UNCHANGED nonPickerVars

\* buildPayload
buildPayload(st) ==
    [sent |-> TRUE, groupId |-> st.groupId, tenantId |-> st.remote.tenantId,
     remoteFolderToken |-> st.remote.token]

\* submitForm with a name, a local path and a valid schedule filled in
submitPickedFolder ==
    /\ ~pickerState.visible
    /\ pickerState.groupId # ""
    /\ pickerState.remote.token # "" /\ pickerState.remote.tenantId # ""
    /\ pickerState' = [pickerState EXCEPT !.payload = buildPayload(pickerState)]
    /\ pickerState' # pickerState
    /\ UNCHANGED nonPickerVars

NextPicker ==
    \/ openCreateDialog
    \/ \E g \in DOMAIN PickerGroups : handleGroupChange(g)
    \/ openFolderDialog
    \/ \E l \in pickerState.loads, ok \in BOOLEAN : PickerLoadAnswered(l, ok)
    \/ \E item \in pickerState.items : enterFolder(item)
    \/ goFolderUp
    \/ confirmFolderDialog
    \/ cancelFolderDialog
    \/ submitPickedFolder

SpecPicker == InitPicker /\ [][NextPicker]_vars

\* C36: in the task form the remote folder selection always belongs to the
\* selected group: after any sequence of group changes, folder-picker
\* navigation and confirmations, a payload submitted by submitForm has a
\* non-empty remoteFolderToken and a tenantId that is a member of the
\* tenantIds of the payload's group.
C36_SelectionBelongsToGroup ==
    /\ pickerState.remote.token # "" =>
          pickerState.remote.tenantId \in PickerGroups[pickerState.groupId]
    /\ pickerState.payload.sent =>
          /\ pickerState.payload.remoteFolderToken # ""
          /\ pickerState.payload.tenantId \in PickerGroups[pickerState.payload.groupId]

(***************************************************************************)
(* renameEntry for a file: copy_file, then delete_file                      *)
(***************************************************************************)
MaxRenames == 2

FileNames == {"x", "y", "n"}

\* The parent folder on the drive when the view loads it.
InitialFiles ==
    {[token |-> 1, name |-> "x", content |-> "c1"],
     [token |-> 2, name |-> "y", content |-> "c2"]}

\* list_folder_entries of the parent
listingOf(files) == {[token |-> f.token, name |-> f.name] : f \in files}

\* new names typed into the prompt for up to two selected entries;
\* handleRename skips an empty or unchanged name
RenameTargets(shownEntries) ==
    LET one == UNION {{[token |-> e.token, newName |-> n] : n \in FileNames \ {e.name}} :
                         e \in shownEntries}
    IN  {<<a>> : a \in one} \cup
        UNION {{<<a, b>> : b \in {c \in one : c.token # a.token}} : a \in one}

\* ensureUniqueName(parentToken, newName, entry.token): getEntriesForParent
\* gives the listing on display when the parent is the current folder, a
\* fresh listing otherwise
nameTaken(st, target) ==
    LET known == IF st.current THEN st.rawEntries ELSE listingOf(st.files)
    IN  \E e \in known : e.token # target.token /\ e.name = target.newName

\* the loop of handleRename goes on to the next target, then refresh()
nextTarget(st) ==
    [st EXCEPT !.queue = Tail(@),
               !.pc = IF Len(st.queue) > 1 THEN "check" ELSE "refresh"]

InitFileRename ==
    /\ InitRoute
    /\ IdleParse
    /\ IdleScan
    /\ IdleNames
    /\ IdleListing
    /\ IdlePool
    /\ IdleTasks
    /\ IdleTransfers
    /\ IdleRemove
    /\ IdleReorder
    /\ IdleRename
    /\ IdleKey
    /\ IdleForm
    /\ IdleMove
    /\ IdleLoad
    /\ IdleTrigger
    /\ IdleMount
    /\ IdleBusy
    /\ IdleSearch
    /\ IdlePicker
    /\ \E current \in BOOLEAN :
          fileRename = [files |-> InitialFiles, rawEntries |-> listingOf(InitialFiles),
                        current |-> current, queue |-> <<>>, pc |-> "idle",
                        log |-> <<>>, calls |-> 0]

\* handleRename(items) up to the first renameEntry
handleRename(targets) ==
    /\ fileRename.pc = "idle"
    /\ fileRename.calls < MaxRenames
    /\ targets \in RenameTargets(fileRename.rawEntries)
    /\ fileRename' = [fileRename EXCEPT
          !.queue = targets, !.pc = "check", !.calls = @ + 1]
    /\ UNCHANGED nonFileRenameVars

\* renameEntry up to copy_file: ensureUniqueName throws on a conflict and
\* handleRename's catch shows the alert
renameEntry ==
    /\ fileRename.pc = "check"
    /\ fileRename' =
          IF nameTaken(fileRename, Head(fileRename.queue))
          THEN nextTarget(fileRename)
          ELSE [fileRename EXCEPT !.pc = "copy"]
    /\ UNCHANGED nonFileRenameVars

\* await invoke('copy_file'): the request and its answer. `existed` records
\* whether the parent held another entry of the new name when it was sent.
CopyAnswered(ok) ==
    /\ fileRename.pc = "copy"
    /\ LET target == Head(fileRename.queue)
           source == {f \in fileRename.files : f.token = target.token}
           sent == [cmd |-> "copy_file", token |-> target.token, ok |-> ok,
                    existed |-> \E f \in fileRename.files :
                                    f.token # target.token /\ f.name = target.newName]
           fresh == 1 + Cardinality({i \in 1..Len(fileRename.log) :
                                        fileRename.log[i].cmd = "copy_file"}) + 2
       IN  /\ ok => source # {}
           /\ fileRename' =
                 IF ok
                 THEN [fileRename EXCEPT
                         !.files = @ \cup {[token |-> fresh, name |-> target.newName,
                                            content |-> f.content] : f \in source},
                         !.log = Append(@, sent),
                         !.pc = "delete"]
                 ELSE [nextTarget(fileRename) EXCEPT !.log = Append(@, sent)]
    /\ UNCHANGED nonFileRenameVars

\* await invoke('delete_file'): the request and its answer
DeleteAnswered(ok) ==
    /\ fileRename.pc = "delete"
    /\ LET target == Head(fileRename.queue)
           sent == [cmd |-> "delete_file", token |-> target.token, ok |-> ok,
                    existed |-> FALSE]
       IN  fileRename' =
              [nextTarget(fileRename) EXCEPT
                  !.files = IF ok THEN {f \in @ : f.token # target.token} ELSE @,
                  !.log = Append(@, sent)]
    /\ UNCHANGED nonFileRenameVars

\* selection cleared, await refresh()
RefreshAnswered(ok) ==
    /\ fileRename.pc = "refresh"
    /\ fileRename' = [fileRename EXCEPT
          !.rawEntries = IF ok THEN listingOf(fileRename.files) ELSE @,
          !.pc = "idle"]
    /\ UNCHANGED nonFileRenameVars

NextFileRename ==
    \/ \E targets \in RenameTargets(fileRename.rawEntries) : handleRename(targets)
    \/ renameEntry
    \/ \E ok \in BOOLEAN : CopyAnswered(ok)
    \/ \E ok \in BOOLEAN : DeleteAnswered(ok)
    \/ \E ok \in BOOLEAN : RefreshAnswered(ok)

SpecFileRename == InitFileRename /\ [][NextFileRename]_vars

\* C37: renaming a file is copy-then-delete in that order: delete_file for
\* the original is issued only after copy_file to the new name has
\* succeeded, neither request is issued when the new name already exists in
\* the parent, and so a failed rename never loses the file's content.
C37_CopyThenDelete ==
    /\ \A i \in 1..Len(fileRename.log) :
          /\ fileRename.log[i].cmd = "delete_file" =>
                /\ i > 1
                /\ fileRename.log[i - 1].cmd = "copy_file"
                /\ fileRename.log[i - 1].ok
                /\ fileRename.log[i - 1].token = fileRename.log[i].token
          /\ ~fileRename.log[i].existed
    /\ \A c \in {"c1", "c2"} : \E f \in fileRename.files : f.content = c

Init == InitRoute /\ IdleParse /\ IdleScan /\ IdleExtra

Spec == Init /\ [][NextRoute]_vars

====
